---- MODULE Spec2Model ----
(***************************************************************************)
(* Text Quality Analyzer (Obsidian plugin, src/main.js): the incremental   *)
(* metrics pipeline.  Documents are sequences of one-character strings;    *)
(* numbers are integers in units of 1/Scale (Scale is a multiple of 1000   *)
(* and of every token count the bounds allow, so the ratios the code       *)
(* computes are exact).                                                    *)
(***************************************************************************)
EXTENDS Integers, Sequences, FiniteSets, TLC

VARIABLES
    resolution,             \* one call of getMetrics, followed tier by tier
    activeFile,             \* app.workspace.getActiveFile(): a path or NoFile
    notes,                  \* the document of each note
    metricsCache,           \* this.metricsCache
    metricsVersion,         \* this.metricsVersion
    currentAnalysis,        \* this._currentAnalysis: the id of a context
    analyses,               \* reanalyzeForced / reanalyze calls suspended
    decorating,             \* computeDecorations calls suspended at getMetrics
    partials,               \* debounce callbacks suspended
    timers,                 \* the timers setTimeout has pending
    analysisTimeout,        \* this._analysisTimeout: a timer handle
    busy,                   \* the status-bar spinner is shown
    subjectEmbeddingCache,  \* this._subjectEmbeddingCache
    nextId,                 \* the next id of a suspended call
    events,                 \* the user's commands and changes so far
    renders,                \* the calls of the card view's renderMetrics
    changedIndices,         \* changedIndices of the last update()
    lastWrite,              \* who last assigned this.metricsCache an object,
                            \* and the id of that call
    submitted,              \* the indices passed to reanalyzeWithDebounce
                            \* since a debounce timer last expired
    dropped,                \* those of them whose timer a full analysis
                            \* cleared and that were not passed again
    sinceSubmit,            \* the time since reanalyzeWithDebounce was called
    lastFire,               \* the last expiry of a debounce timer
    emptied,                \* the notes whose cache a full analysis of the
                            \* active note emptied when it started
    shown,                  \* the notices of the getMetrics call that last
                            \* resolved
    decorations,            \* the normalised values of the decorations the
                            \* editor extension last built
    call                    \* one call of a helper function: its name, its
                            \* arguments and, once it returned, its result

vars ==
    << resolution, activeFile, notes, metricsCache, metricsVersion, currentAnalysis,
       analyses, decorating, partials, timers, analysisTimeout, busy,
       subjectEmbeddingCache, nextId, events, renders, changedIndices, lastWrite,
       submitted, dropped, sinceSubmit, lastFire, emptied, shown, decorations,
       call >>

\* ------------------------------------------------------------------------
\* Bounds of the model
\* ------------------------------------------------------------------------
MaxDocLen == 6
MaxEvents == 3
TickMs == 500

\* ------------------------------------------------------------------------
\* Characters and strings
\* ------------------------------------------------------------------------
NL == "\n"
CR == "\r"
SP == " "
\* "a" stands for a Cyrillic vowel, "b" for a Cyrillic consonant.
Vowels == {"a"}
Terminals == {"."}
Whitespace == {SP, NL, CR}
LowerOf(c) == IF c = "A" THEN "a" ELSE IF c = "B" THEN "b" ELSE c
\* \p{L}\p{N}: "A" and "B" are the capitals of "a" and "b"
LettersDigits == {"a", "b", "A", "B"}
\* [\u0410-\u044f\u0401\u0451]
Cyrillic == {"a", "b", "A", "B"}
Null == 0 - 1

Scale == 12 * 1000

Min2(x, y) == IF x <= y THEN x ELSE y
Max2(x, y) == IF x >= y THEN x ELSE y

RECURSIVE SeqMin(_)
SeqMin(s) == IF Len(s) = 1 THEN s[1] ELSE Min2(s[1], SeqMin(Tail(s)))

RECURSIVE SeqMax(_)
SeqMax(s) == IF Len(s) = 1 THEN s[1] ELSE Max2(s[1], SeqMax(Tail(s)))

\* text.slice(from, to) with 0-based offsets, to exclusive
Slice(t, from, to) == IF to <= from THEN << >> ELSE SubSeq(t, from + 1, to)

RECURSIVE TrimLeft(_)
TrimLeft(t) ==
    IF t # << >> /\ t[1] \in Whitespace THEN TrimLeft(Tail(t)) ELSE t

RECURSIVE TrimRight(_)
TrimRight(t) ==
    IF t # << >> /\ t[Len(t)] \in Whitespace
    THEN TrimRight(SubSeq(t, 1, Len(t) - 1)) ELSE t

\* String.prototype.trim
Trim(t) == TrimRight(TrimLeft(t))

\* text.split(/\n{2,}/): cut at every maximal run of two or more newlines
RECURSIVE SplitBlank(_, _)
SplitBlank(t, cur) ==
    IF t = << >> THEN << cur >>
    ELSE IF Len(t) >= 2 /\ t[1] = NL /\ t[2] = NL
         THEN LET RECURSIVE SkipNL(_)
                  SkipNL(u) == IF u # << >> /\ u[1] = NL THEN SkipNL(Tail(u)) ELSE u
              IN << cur >> \o SplitBlank(SkipNL(t), << >>)
         ELSE SplitBlank(Tail(t), Append(cur, t[1]))

RECURSIVE TrimNonEmpty(_)
TrimNonEmpty(ps) ==
    IF ps = << >> THEN << >>
    ELSE LET p == Trim(ps[1])
         IN (IF p = << >> THEN << >> ELSE << p >>) \o TrimNonEmpty(Tail(ps))

\* No replacement of "\r\n"
ReplaceCRLF_None(t) == t

\* text.replace(/\r\n/g, "\n")
RECURSIVE ReplaceCRLF(_)
ReplaceCRLF(t) ==
    IF t = << >> THEN << >>
    ELSE IF Len(t) >= 2 /\ t[1] = CR /\ t[2] = NL
         THEN << NL >> \o ReplaceCRLF(Tail(Tail(t)))
         ELSE << t[1] >> \o ReplaceCRLF(Tail(t))

splitIntoParagraphs(text) == TrimNonEmpty(SplitBlank(ReplaceCRLF(text), << >>))

\* ------------------------------------------------------------------------
\* Heuristic scorer
\* ------------------------------------------------------------------------
\* Math.round(n / d) for n >= 0, d > 0
RoundDiv(n, d) == (2 * n + d) \div (2 * d)

\* para.split(/\s+/).filter((w) => w.length > 0)
RECURSIVE SplitWs(_, _)
SplitWs(t, cur) ==
    IF t = << >> THEN (IF cur = << >> THEN << >> ELSE << cur >>)
    ELSE IF t[1] \in Whitespace
         THEN (IF cur = << >> THEN << >> ELSE << cur >>) \o SplitWs(Tail(t), << >>)
         ELSE SplitWs(Tail(t), Append(cur, t[1]))

\* A token kept as it is written
CleanToken_Raw(w) == w

\* w.replace(/[^\p{L}\p{N}]+/gu, "").toLowerCase().trim()
RECURSIVE CleanToken(_)
CleanToken(w) ==
    IF w = << >> THEN << >>
    ELSE (IF w[1] \in LettersDigits THEN << LowerOf(w[1]) >> ELSE << >>)
         \o CleanToken(Tail(w))

HeuristicSnr(para) ==
    LET words == SplitWs(para, << >>)
        uniq == {CleanToken(words[i]) : i \in 1..Len(words)} \ {<< >>}
    IN IF Len(words) > 0 THEN (Cardinality(uniq) * Scale) \div Len(words) ELSE 0

\* text.match(/[\u0410-\u044f\u0401\u0451]{2,}/gu)
RECURSIVE extractRussianWords(_, _)
extractRussianWords(t, cur) ==
    IF t = << >> THEN (IF Len(cur) >= 2 THEN << cur >> ELSE << >>)
    ELSE IF t[1] \in Cyrillic
         THEN extractRussianWords(Tail(t), Append(cur, t[1]))
         ELSE (IF Len(cur) >= 2 THEN << cur >> ELSE << >>)
              \o extractRussianWords(Tail(t), << >>)

\* text.split(/[.!?\u2026]+[\s\n]*/u): the pieces between terminal runs
RECURSIVE SplitTerminals(_, _)
SplitTerminals(t, cur) ==
    IF t = << >> THEN << cur >>
    ELSE IF t[1] \in Terminals
         THEN LET RECURSIVE SkipT(_)
                  SkipT(u) == IF u # << >> /\ u[1] \in Terminals THEN SkipT(Tail(u)) ELSE u
                  RECURSIVE SkipW(_)
                  SkipW(u) == IF u # << >> /\ u[1] \in Whitespace THEN SkipW(Tail(u)) ELSE u
              IN << cur >> \o SplitTerminals(SkipW(SkipT(t)), << >>)
         ELSE SplitTerminals(Tail(t), Append(cur, t[1]))

splitSentencesRussian(text) ==
    IF text = << >> THEN << >>
    ELSE TrimNonEmpty(SplitTerminals(ReplaceCRLF(text), << >>))

countRussianSyllables(word) ==
    LET count == Cardinality({i \in 1..Len(word) : LowerOf(word[i]) \in Vowels})
    IN IF count > 0 THEN count ELSE 1

\* The largest f in lo..hi with f * f <= n
RECURSIVE SqrtSearch(_, _, _)
SqrtSearch(lo, hi, n) ==
    IF lo >= hi THEN lo
    ELSE LET mid == (lo + hi + 1) \div 2
         IN IF mid * mid <= n THEN SqrtSearch(mid, hi, n) ELSE SqrtSearch(lo, mid - 1, n)

\* Math.round(1000 * (1.043 * Math.sqrt(p * (30 / s)) + 3.1291))
\*   = 3129 + floor(y + 0.6) with y = sqrt(1043 * 1043 * 30 * p / s);
\* f is floor(y), and y >= f + 0.4 exactly when 25 d >= s (20 f + 4).
SmogMilli(p, s) ==
    LET m == 1043 * 1043 * 30 * p
        f == SqrtSearch(0, 46340, m \div s)
        d == m - s * f * f
    IN 3129 + f + (IF 25 * d >= s * (20 * f + 4) THEN 1 ELSE 0)

\* russianSmogIndex: [value (in 1/1000, Null when undefined), valid]
russianSmogIndex(text) ==
    IF Trim(text) = << >> THEN [value |-> Null, valid |-> FALSE]
    ELSE LET numSentences == Len(splitSentencesRussian(text))
             isValid == numSentences >= 3
             words == extractRussianWords(text, << >>)
             poly == Cardinality({i \in 1..Len(words) : countRussianSyllables(words[i]) >= 3})
         IN IF numSentences = 0 THEN [value |-> Null, valid |-> FALSE]
            ELSE IF Len(words) = 0 THEN [value |-> Null, valid |-> isValid]
            ELSE [value |-> SmogMilli(poly, numSentences), valid |-> isValid]

\* russianLixIndex, in 1/1000 (Null when undefined)
russianLixIndex(text) ==
    IF Trim(text) = << >> THEN Null
    ELSE LET numSentences == Len(splitSentencesRussian(text))
             words == extractRussianWords(text, << >>)
             numWords == Len(words)
             numLongWords == Cardinality({i \in 1..numWords : Len(words[i]) > 6})
         IN IF numSentences = 0 \/ numWords = 0 THEN Null
            ELSE RoundDiv((numWords * numWords + 100 * numLongWords * numSentences) * 1000,
                          numSentences * numWords)

\* normalizeScore without the clipping of value to [min, max]
normalizeScore_NoClip(value, min, max) ==
    IF value = Null THEN Null
    ELSE IF max = min THEN 0 ELSE RoundDiv(value - min * 1000, max - min)

\* normalizeScore on values in 1/1000; Null stands for NaN
normalizeScore(value, min, max) ==
    IF value = Null THEN Null
    ELSE LET clipped == Min2(Max2(value, min * 1000), max * 1000)
         IN IF max = min THEN 0 ELSE RoundDiv(clipped - min * 1000, max - min)

\* calculateComplexity with the SMOG term taken whenever it has a value
calculateComplexity_AlwaysSmog(lix, smog, smogValid) ==
    LET nLix == normalizeScore(lix, 0, 80)
        nSmog == normalizeScore(smog, 3, 20)
        vals == (IF nLix # Null THEN << nLix >> ELSE << >>)
                \o (IF nSmog # Null THEN << nSmog >> ELSE << >>)
    IN IF Len(vals) = 0 THEN 0
       ELSE IF Len(vals) = 1 THEN vals[1] * (Scale \div 1000)
       ELSE RoundDiv(vals[1] + vals[2], 2) * (Scale \div 1000)

\* calculateComplexity: the result in 1/Scale
calculateComplexity(lix, smog, smogValid) ==
    LET nLix == normalizeScore(lix, 0, 80)
        nSmog == IF smogValid THEN normalizeScore(smog, 3, 20) ELSE Null
        vals == (IF nLix # Null THEN << nLix >> ELSE << >>)
                \o (IF nSmog # Null THEN << nSmog >> ELSE << >>)
    IN IF Len(vals) = 0 THEN 0
       ELSE IF Len(vals) = 1 THEN vals[1] * (Scale \div 1000)
       ELSE RoundDiv(vals[1] + vals[2], 2) * (Scale \div 1000)

HeuristicComplexity(para) ==
    LET smogInfo == russianSmogIndex(para)
    IN calculateComplexity(russianLixIndex(para), smogInfo.value, smogInfo.valid)

\* para.toLowerCase().split(topicLower).length - 1
RECURSIVE CountOccur(_, _)
CountOccur(t, pat) ==
    IF Len(t) < Len(pat) THEN 0
    ELSE IF SubSeq(t, 1, Len(pat)) = pat
         THEN 1 + CountOccur(SubSeq(t, Len(pat) + 1, Len(t)), pat)
         ELSE CountOccur(Tail(t), pat)

ToLower(t) == [i \in 1..Len(t) |-> LowerOf(t[i])]

HeuristicTopic(para, topic) ==
    IF Len(topic) = 0 THEN 0
    ELSE LET occur == CountOccur(ToLower(para), ToLower(topic))
         IN IF occur > 0 THEN Min2(Scale, (occur * Scale) \div 3) ELSE 0

\* computeHeuristicMetrics
computeHeuristicMetrics(paragraphs, topic) ==
    [i \in 1..Len(paragraphs) |->
        [snr |-> HeuristicSnr(paragraphs[i]),
         complexity |-> HeuristicComplexity(paragraphs[i]),
         topic |-> HeuristicTopic(paragraphs[i], topic)]]

\* ------------------------------------------------------------------------
\* Remote collaborators: what a request can come back with
\* ------------------------------------------------------------------------
\* A number of a remote payload is an integer in 1/Scale; Null is a field
\* that is missing or not a number.
Fifth == Scale \div 5

\* The HTTP scoring service's answers to a request carrying n paragraphs.
HttpProfiles ==
    {"neterr", "status500", "badjson", "notarray", "jsonnull", "good", "short",
     "long", "nullitem", "partial", "outofrange"}

HttpItem(k) ==
    [snr |-> IF k % 2 = 1 THEN Fifth ELSE 4 * Fifth,
     complexity |-> IF k % 2 = 1 THEN 3 * Fifth ELSE 2 * Fifth,
     topic |-> Fifth, role |-> "example"]

HttpItems(profile, n) ==
    CASE profile = "good" -> [k \in 1..n |-> HttpItem(k)]
      [] profile = "short" -> [k \in 1..(n - 1) |-> HttpItem(k)]
      [] profile = "long" -> [k \in 1..(n + 1) |-> HttpItem(k)]
      [] profile = "nullitem" ->
            [k \in 1..n |-> IF k = n THEN [isNull |-> TRUE] ELSE HttpItem(k)]
      [] profile = "partial" ->
            [k \in 1..n |-> [snr |-> Null, complexity |-> Null, topic |-> Null, role |-> ""]]
      [] profile = "outofrange" ->
            [k \in 1..n |-> [snr |-> 6 * Fifth, complexity |-> 0 - Fifth,
                             topic |-> 2 * Scale, role |-> ""]]
      [] OTHER -> << >>

IsNullItem(item) == "isNull" \in DOMAIN item

\* fetch + res.ok + res.json(): what the caller sees
\*   "throw"  the fetch or the JSON decoding rejected
\*   "notok"  a non-2xx status
\*   "value"  a decoded body that is no array (isArray FALSE), null included
\*   "array"  a decoded array
HttpFetch(profile, n) ==
    CASE profile \in {"neterr", "badjson"} -> [kind |-> "throw"]
      [] profile = "status500" -> [kind |-> "notok"]
      [] profile = "notarray" -> [kind |-> "value", isNull |-> FALSE]
      [] profile = "jsonnull" -> [kind |-> "value", isNull |-> TRUE]
      [] OTHER -> [kind |-> "array", data |-> HttpItems(profile, n)]

\* typeof x === 'number' ? x : 0
NumOr0(x) == IF x # Null THEN x ELSE 0

\* The embeddings provider's answers to a request carrying n input strings:
\* a thrown error (non-2xx, a body without a data array) or the embeddings
\* of data.data, an entry without an "embedding" field being undefined.
EmbProfiles == {"throw", "same", "alt", "short", "undef", "empty"}

Vec(k) ==
    CASE k % 3 = 1 -> [v |-> << 1, 0 >>]
      [] k % 3 = 2 -> [v |-> << 0, 1 >>]
      [] OTHER -> [v |-> << 0 - 1, 0 >>]

Undefined == [undef |-> TRUE]
IsUndefined(x) == "undef" \in DOMAIN x

EmbFetch(profile, n) ==
    CASE profile = "throw" -> [kind |-> "throw"]
      [] profile = "same" -> [kind |-> "ok", embs |-> [k \in 1..n |-> Vec(1)]]
      [] profile = "alt" -> [kind |-> "ok", embs |-> [k \in 1..n |-> Vec(k)]]
      [] profile = "short" -> [kind |-> "ok", embs |-> [k \in 1..(n - 1) |-> Vec(1)]]
      [] profile = "undef" ->
            [kind |-> "ok", embs |-> [k \in 1..n |-> IF k = n THEN Undefined ELSE Vec(1)]]
      [] OTHER -> [kind |-> "ok", embs |-> << >>]

\* arr[i] of a JavaScript array, 0-based: undefined beyond the end
At(arr, i) == IF i + 1 \in 1..Len(arr) THEN arr[i + 1] ELSE Undefined

RECURSIVE ISqrt(_, _)
ISqrt(n, r) == IF (r + 1) * (r + 1) > n THEN r ELSE ISqrt(n, r + 1)

Dot(a, b) ==
    LET m == Min2(Len(a), Len(b))
        RECURSIVE Sum(_)
        Sum(i) == IF i > m THEN 0 ELSE a[i] * b[i] + Sum(i + 1)
    IN Sum(1)

\* cosineSimilarity of two defined vectors, in 1/Scale (the vectors of this
\* model have norms that are perfect squares)
cosineSimilarity(a, b) ==
    LET m == Min2(Len(a), Len(b))
        dot == Dot(a, b)
        normA == Dot(SubSeq(a, 1, m), SubSeq(a, 1, m))
        normB == Dot(SubSeq(b, 1, m), SubSeq(b, 1, m))
    IN IF normA = 0 \/ normB = 0 THEN 0
       ELSE LET den == ISqrt(normA, 0) * ISqrt(normB, 0)
                raw == IF dot >= 0 THEN (dot * Scale) \div den
                       ELSE 0 - (((0 - dot) * Scale) \div den)
                sim == Min2(Max2(raw, 0 - Scale), Scale)
            IN (sim + Scale) \div 2

\* callOpenAiChat's transport: the first request succeeds ("ok"), fails with an
\* error that is not about the token parameter ("fail"), fails with one that
\* is and the second request succeeds ("retryok") or fails ("retryfail"), or
\* the fetch itself rejects ("neterr").
ChatProfiles == {"ok", "fail", "retryok", "retryfail", "neterr"}

\* The message content of a successful chat completion, as
\* parseLlmScoresAndComplexity reads it for n paragraphs.
ContentProfiles ==
    {"garbage", "empty", "emptyobj", "good", "zeros", "short", "long",
     "scoresonly", "complexityonly", "outofrange", "nonnum"}

NoArray == [isArray |-> FALSE, arr |-> << >>]
Arr(a) == [isArray |-> TRUE, arr |-> a]
Score(k) == IF k % 2 = 1 THEN 4 * Fifth ELSE Fifth
Cplx(k) == IF k % 2 = 1 THEN 2 * Fifth ELSE 3 * Fifth

\* parseLlmScoresAndComplexity(content): [isNull, scores, complexity]
parseLlmScoresAndComplexity(profile, n) ==
    CASE profile \in {"garbage", "empty"} ->
            [isNull |-> TRUE, scores |-> NoArray, complexity |-> NoArray]
      [] profile = "emptyobj" ->
            [isNull |-> FALSE, scores |-> NoArray, complexity |-> NoArray]
      [] profile = "good" ->
            [isNull |-> FALSE, scores |-> Arr([k \in 1..n |-> Score(k)]),
             complexity |-> Arr([k \in 1..n |-> Cplx(k)])]
      [] profile = "zeros" ->
            [isNull |-> FALSE, scores |-> Arr([k \in 1..n |-> 0]),
             complexity |-> Arr([k \in 1..n |-> Cplx(k)])]
      [] profile = "short" ->
            [isNull |-> FALSE, scores |-> Arr([k \in 1..(n - 1) |-> Score(k)]),
             complexity |-> Arr([k \in 1..(n - 1) |-> Cplx(k)])]
      [] profile = "long" ->
            [isNull |-> FALSE, scores |-> Arr([k \in 1..(n + 1) |-> Score(k)]),
             complexity |-> Arr([k \in 1..(n + 1) |-> Cplx(k)])]
      [] profile = "scoresonly" ->
            [isNull |-> FALSE, scores |-> Arr([k \in 1..n |-> Score(k)]),
             complexity |-> NoArray]
      [] profile = "complexityonly" ->
            [isNull |-> FALSE, scores |-> NoArray,
             complexity |-> Arr([k \in 1..n |-> Cplx(k)])]
      [] profile = "outofrange" ->
            [isNull |-> FALSE, scores |-> Arr([k \in 1..n |-> 6 * Fifth]),
             complexity |-> Arr([k \in 1..n |-> 0 - Fifth])]
      [] OTHER ->
            [isNull |-> FALSE, scores |-> Arr([k \in 1..n |-> Null]),
             complexity |-> Arr([k \in 1..n |-> Null])]

\* clamp01 (Null: a value Number() turns into NaN)
clamp01(x) == IF x = Null THEN 0 ELSE IF x < 0 THEN 0 ELSE IF x > Scale THEN Scale ELSE x

normalizeArray01(arr, targetLen) ==
    [k \in 1..targetLen |-> IF k <= Len(arr) THEN clamp01(arr[k]) ELSE 0]

\* fetchOpenAiRoles for n paragraphs: one request per paragraph, the first
\* failing request throws.
RolesProfiles == {"ok", "blank", "failfirst", "faillast"}

fetchOpenAiRoles(profile, n) ==
    CASE profile = "ok" ->
            [kind |-> "ok", roles |-> [k \in 1..n |-> "example"],
             calls |-> [k \in 1..n |-> "roles"]]
      [] profile = "blank" ->
            [kind |-> "ok", roles |-> [k \in 1..n |-> "other"],
             calls |-> [k \in 1..n |-> "roles"]]
      [] profile = "failfirst" ->
            IF n = 0 THEN [kind |-> "ok", roles |-> << >>, calls |-> << >>]
            ELSE [kind |-> "throw", calls |-> << "roles" >>]
      [] OTHER ->
            IF n = 0 THEN [kind |-> "ok", roles |-> << >>, calls |-> << >>]
            ELSE [kind |-> "throw", calls |-> [k \in 1..n |-> "roles"]]

\* callOpenAiChat: [kind, calls, notices]
NoticeRetry == "Chat model token parameter adjusted; retrying request."

callOpenAiChat(profile) ==
    CASE profile = "ok" -> [kind |-> "ok", calls |-> << "chat" >>, notices |-> << >>]
      [] profile = "fail" -> [kind |-> "throw", calls |-> << "chat" >>, notices |-> << >>]
      [] profile = "neterr" -> [kind |-> "throw", calls |-> << "chat" >>, notices |-> << >>]
      [] profile = "retryok" ->
            [kind |-> "ok", calls |-> << "chat", "chat" >>, notices |-> << NoticeRetry >>]
      [] OTHER ->
            [kind |-> "throw", calls |-> << "chat", "chat" >>, notices |-> << NoticeRetry >>]

\* ------------------------------------------------------------------------
\* Metrics resolver: getMetrics and its two adapters
\* ------------------------------------------------------------------------
NoticeServer == "HTTP server unreachable or returned invalid data; falling back to heuristic analysis."
NoticeNoKey == "No API key set for OpenAI analysis; falling back to heuristic analysis."
NoticeOpenAiFailed == "OpenAI API call failed; falling back to heuristic analysis."
NoticeAuto == "Falling back to heuristic analysis."
NoticeLlmFallback == "LLM SNR scoring failed to return valid data; falling back to embeddings."

\* this._subjectEmbeddingCache: null, or [text, model, embedding]
NoSubj == [isNull |-> TRUE]

\* What an adapter hands back: null (isNull) or a metrics array, with the
\* requests it sent, the notices it raised and the subject-embedding slot.
AdapterNull(calls, notices, subj) ==
    [isNull |-> TRUE, thrown |-> FALSE, metrics |-> << >>, calls |-> calls,
     notices |-> notices, subj |-> subj]

AdapterOk(metrics, calls, notices, subj) ==
    [isNull |-> FALSE, thrown |-> FALSE, metrics |-> metrics, calls |-> calls,
     notices |-> notices, subj |-> subj]

\* An error that leaves the adapter: the awaiting getMetrics rejects with it.
AdapterThrow(calls, notices, subj) ==
    [isNull |-> TRUE, thrown |-> TRUE, metrics |-> << >>, calls |-> calls,
     notices |-> notices, subj |-> subj]

\* TryHttpBody without the data.length === paragraphs.length test
TryHttpBody_NoLengthCheck(paragraphs, env) ==
    LET res == HttpFetch(env.http, Len(paragraphs))
    IN CASE res.kind = "throw" -> [kind |-> "throw"]
         [] res.kind = "notok" -> [kind |-> "null"]
         [] res.kind = "value" -> [kind |-> "null"]
         [] OTHER ->
               IF \E k \in 1..Len(res.data) : IsNullItem(res.data[k])
               THEN [kind |-> "throw"]
               ELSE [kind |-> "metrics",
                     metrics |-> [k \in 1..Len(res.data) |->
                         [snr |-> NumOr0(res.data[k].snr),
                          complexity |-> NumOr0(res.data[k].complexity),
                          topic |-> NumOr0(res.data[k].topic),
                          role |-> res.data[k].role]]]

\* The body of tryHttpEndpoint's try block: "throw", "null" or "metrics"
TryHttpBody(paragraphs, env) ==
    LET res == HttpFetch(env.http, Len(paragraphs))
    IN CASE res.kind = "throw" -> [kind |-> "throw"]
         [] res.kind = "notok" -> [kind |-> "null"]
         [] res.kind = "value" -> [kind |-> "null"]
         [] OTHER ->
               IF Len(res.data) = Len(paragraphs)
               THEN IF \E k \in 1..Len(res.data) : IsNullItem(res.data[k])
                    THEN [kind |-> "throw"]
                    ELSE [kind |-> "metrics",
                          metrics |-> [k \in 1..Len(res.data) |->
                              [snr |-> NumOr0(res.data[k].snr),
                               complexity |-> NumOr0(res.data[k].complexity),
                               topic |-> NumOr0(res.data[k].topic),
                               role |-> res.data[k].role]]]
               ELSE [kind |-> "null"]

tryHttpEndpoint(settings, paragraphs, env, subj) ==
    IF ~settings.httpEndpoint THEN AdapterNull(<< >>, << >>, subj)
    ELSE LET b == TryHttpBody(paragraphs, env)
         IN IF b.kind = "metrics"
            THEN AdapterOk(b.metrics, << "http" >>, << >>, subj)
            ELSE AdapterNull(<< "http" >>, << >>, subj)

\* topic && topic.trim().length > 0 ? topic : paragraphs[0] || ''
SubjectOf(settings, paragraphs) ==
    IF Trim(settings.topic) # << >> THEN settings.topic
    ELSE IF Len(paragraphs) > 0 THEN paragraphs[1] ELSE << >>

\* One batched embedding of [subject, ...paragraphs] and the similarities:
\* [thrown, snr, calls, subj]
EmbedAll(settings, paragraphs, env, subj) ==
    LET f == EmbFetch(env.emb, Len(paragraphs) + 1)
    IN IF f.kind = "throw"
       THEN [thrown |-> TRUE, snr |-> << >>, calls |-> << "emb" >>, subj |-> subj]
       ELSE LET subjectEmb == At(f.embs, 0)
                paraEmbs == IF f.embs = << >> THEN << >> ELSE Tail(f.embs)
                subj2 == [isNull |-> FALSE, text |-> SubjectOf(settings, paragraphs),
                          model |-> settings.embeddingModel, embedding |-> subjectEmb]
            IN IF paraEmbs # << >>
                  /\ (IsUndefined(subjectEmb)
                      \/ \E k \in 1..Len(paraEmbs) : IsUndefined(paraEmbs[k]))
               THEN [thrown |-> TRUE, snr |-> << >>, calls |-> << "emb" >>, subj |-> subj2]
               ELSE [thrown |-> FALSE,
                     snr |-> [k \in 1..Len(paraEmbs) |->
                                 cosineSimilarity(subjectEmb.v, paraEmbs[k].v)],
                     calls |-> << "emb" >>, subj |-> subj2]

\* The SNR part of tryOpenAi: [thrown, snr, cplx, calls, notices, subj]
OpenAiSnr(settings, paragraphs, env, subj) ==
    LET n == Len(paragraphs)
    IN IF settings.snrMethod = "embedding"
       THEN LET e == EmbedAll(settings, paragraphs, env, subj)
            IN [thrown |-> e.thrown, snr |-> e.snr, cplx |-> NoArray,
                calls |-> e.calls, notices |-> << >>, subj |-> e.subj]
       ELSE LET chat == callOpenAiChat(env.chat)
            IN IF chat.kind = "throw"
               THEN [thrown |-> TRUE, snr |-> << >>, cplx |-> NoArray,
                     calls |-> chat.calls, notices |-> chat.notices, subj |-> subj]
               ELSE LET obj == parseLlmScoresAndComplexity(env.content, n)
                        parsedOk == ~obj.isNull
                                    /\ (obj.scores.isArray \/ obj.complexity.isArray)
                        snr1 == IF parsedOk THEN normalizeArray01(obj.scores.arr, n)
                                ELSE << >>
                        cplx == IF parsedOk /\ obj.complexity.isArray
                                THEN Arr(normalizeArray01(obj.complexity.arr, n))
                                ELSE NoArray
                    IN IF ~parsedOk \/ \A k \in 1..Len(snr1) : snr1[k] = 0
                       THEN LET e == EmbedAll(settings, paragraphs, env, subj)
                            IN [thrown |-> e.thrown, snr |-> e.snr, cplx |-> cplx,
                                calls |-> chat.calls \o e.calls,
                                notices |-> chat.notices \o << NoticeLlmFallback >>,
                                subj |-> e.subj]
                       ELSE [thrown |-> FALSE, snr |-> snr1, cplx |-> cplx,
                             calls |-> chat.calls, notices |-> chat.notices,
                             subj |-> subj]

\* OpenAiCompose without the try/catch around fetchOpenAiRoles: a failed
\* classification reaches the outer catch, which returns null
OpenAiCompose_RolesAbort(settings, paragraphs, env, s) ==
    LET n == Len(paragraphs)
    IN IF s.thrown THEN AdapterNull(s.calls, s.notices, s.subj)
       ELSE IF settings.classifyRoles /\ fetchOpenAiRoles(env.roles, n).kind # "ok"
       THEN AdapterNull(s.calls \o fetchOpenAiRoles(env.roles, n).calls,
                        s.notices, s.subj)
       ELSE LET r == IF settings.classifyRoles
                     THEN fetchOpenAiRoles(env.roles, n)
                     ELSE [kind |-> "ok", roles |-> [k \in 1..n |-> ""],
                           calls |-> << >>]
            IN AdapterOk(
                   [i \in 1..n |->
                       LET snr == IF i <= Len(s.snr) THEN s.snr[i] ELSE 0
                       IN [snr |-> snr,
                           complexity |-> IF s.cplx.isArray
                                          THEN s.cplx.arr[i]
                                          ELSE computeHeuristicMetrics(
                                                   paragraphs, << >>)[i].complexity,
                           topic |-> snr,
                           role |-> r.roles[i]]],
                   s.calls \o r.calls, s.notices, s.subj)

\* tryOpenAi after the SNR part s: roles, complexity and the metric objects
OpenAiCompose(settings, paragraphs, env, s) ==
    LET n == Len(paragraphs)
    IN IF s.thrown THEN AdapterNull(s.calls, s.notices, s.subj)
       ELSE LET r == IF settings.classifyRoles
                     THEN fetchOpenAiRoles(env.roles, n)
                     ELSE [kind |-> "ok", roles |-> [k \in 1..n |-> ""],
                           calls |-> << >>]
            IN AdapterOk(
                   [i \in 1..n |->
                       LET snr == IF i <= Len(s.snr) THEN s.snr[i] ELSE 0
                       IN [snr |-> snr,
                           complexity |-> IF s.cplx.isArray
                                          THEN s.cplx.arr[i]
                                          ELSE computeHeuristicMetrics(
                                                   paragraphs, << >>)[i].complexity,
                           topic |-> snr,
                           role |-> IF r.kind = "ok" THEN r.roles[i] ELSE ""]],
                   s.calls \o r.calls, s.notices, s.subj)

tryOpenAi(settings, paragraphs, env, subj) ==
    IF ~settings.apiKey THEN AdapterNull(<< >>, << >>, subj)
    ELSE OpenAiCompose(settings, paragraphs, env,
                       OpenAiSnr(settings, paragraphs, env, subj))

\* computeHeuristic of getMetrics
computeHeuristic(settings, paragraphs) ==
    LET heur == computeHeuristicMetrics(paragraphs, settings.topic)
    IN [i \in 1..Len(paragraphs) |->
           [snr |-> heur[i].snr, complexity |-> heur[i].complexity,
            topic |-> heur[i].topic, role |-> ""]]

BackendModes == {"auto", "server", "openai", "heuristic"}

\* One call of getMetrics in progress: where it stands (pc), what it was
\* called with, what it has requested and raised so far, and its result.
ResolverStart(settings, paragraphs, env, subj) ==
    [pc |-> "start", settings |-> settings, paragraphs |-> paragraphs, env |-> env,
     metrics |-> << >>, calls |-> << >>, notices |-> << >>, subj |-> subj,
     tiers |-> << >>]

\* The record of one tier tried: which, and what it returned
Tier(name, a) == [tier |-> name, isNull |-> a.isNull, metrics |-> a.metrics]

\* if (backendMode === ...): the first tier of the mode
StepStart(r) ==
    [r EXCEPT !.pc = CASE r.settings.backendMode = "heuristic" -> "heur"
                       [] r.settings.backendMode = "server" -> "http"
                       [] r.settings.backendMode = "openai" -> "llm"
                       [] r.settings.backendMode = "auto" -> "http"
                       [] OTHER -> "heur"]

\* AfterHttp going straight to the heuristics when the HTTP adapter fails
AfterHttp_SkipLlm(r, a) ==
    LET calls == r.calls \o a.calls
        tiers == Append(r.tiers, Tier("http", a))
    IN IF ~a.isNull
       THEN [r EXCEPT !.pc = "done", !.metrics = a.metrics, !.calls = calls,
                      !.tiers = tiers]
       ELSE [r EXCEPT !.pc = "heur", !.calls = calls, !.tiers = tiers,
                      !.notices = r.notices \o << NoticeServer >>]

\* What getMetrics does with the result a of `await tryHttpEndpoint()` in
\* 'server' and 'auto' mode
AfterHttp(r, a) ==
    LET calls == r.calls \o a.calls
        tiers == Append(r.tiers, Tier("http", a))
    IN IF a.thrown
       THEN [r EXCEPT !.pc = "thrown", !.calls = calls, !.tiers = tiers]
       ELSE IF ~a.isNull
       THEN [r EXCEPT !.pc = "done", !.metrics = a.metrics, !.calls = calls,
                      !.tiers = tiers]
       ELSE IF r.settings.backendMode = "server"
            THEN [r EXCEPT !.pc = "heur", !.calls = calls, !.tiers = tiers,
                           !.notices = r.notices \o << NoticeServer >>]
            ELSE [r EXCEPT !.pc = "llm", !.calls = calls, !.tiers = tiers]

\* await tryHttpEndpoint() and what follows it
StepHttp(r) ==
    AfterHttp(r, tryHttpEndpoint(r.settings, r.paragraphs, r.env, r.subj))

\* AfterOpenAi raising the call-failure notice whether or not a key is set
AfterOpenAi_OneNotice(r, a) ==
    LET calls == r.calls \o a.calls
        notices == r.notices \o a.notices
        tiers == Append(r.tiers, Tier("llm", a))
    IN IF ~a.isNull
       THEN [r EXCEPT !.pc = "done", !.metrics = a.metrics, !.calls = calls,
                      !.notices = notices, !.subj = a.subj, !.tiers = tiers]
       ELSE [r EXCEPT !.pc = "heur", !.calls = calls, !.subj = a.subj,
                      !.tiers = tiers,
                      !.notices = notices \o
                          << IF r.settings.backendMode = "openai"
                             THEN NoticeOpenAiFailed ELSE NoticeAuto >>]

\* What getMetrics does with the result a of `await tryOpenAi()` in 'openai'
\* and 'auto' mode
AfterOpenAi(r, a) ==
    LET calls == r.calls \o a.calls
        notices == r.notices \o a.notices
        tiers == Append(r.tiers, Tier("llm", a))
    IN IF a.thrown
       THEN [r EXCEPT !.pc = "thrown", !.calls = calls, !.notices = notices,
                      !.subj = a.subj, !.tiers = tiers]
       ELSE IF ~a.isNull
       THEN [r EXCEPT !.pc = "done", !.metrics = a.metrics, !.calls = calls,
                      !.notices = notices, !.subj = a.subj, !.tiers = tiers]
       ELSE [r EXCEPT !.pc = "heur", !.calls = calls, !.subj = a.subj,
                      !.tiers = tiers,
                      !.notices = notices \o
                          << IF r.settings.backendMode = "openai"
                             THEN (IF ~r.settings.apiKey THEN NoticeNoKey
                                   ELSE NoticeOpenAiFailed)
                             ELSE NoticeAuto >>]

\* await tryOpenAi() and what follows it
StepOpenAi(r) ==
    AfterOpenAi(r, tryOpenAi(r.settings, r.paragraphs, r.env, r.subj))

\* What getMetrics returns from computeHeuristic()'s result heur
AfterHeuristic(r, heur) ==
    [r EXCEPT !.pc = "done", !.metrics = heur,
              !.tiers = Append(r.tiers, [tier |-> "heur", isNull |-> FALSE,
                                         metrics |-> heur])]

\* return computeHeuristic()
StepHeuristic(r) == AfterHeuristic(r, computeHeuristic(r.settings, r.paragraphs))

getMetricsStep(r) ==
    CASE r.pc = "start" -> StepStart(r)
      [] r.pc = "http" -> StepHttp(r)
      [] r.pc = "llm" -> StepOpenAi(r)
      [] r.pc = "heur" -> StepHeuristic(r)
      [] OTHER -> r

RECURSIVE RunResolver(_)
RunResolver(r) ==
    IF r.pc \in {"done", "thrown"} THEN r ELSE RunResolver(getMetricsStep(r))

\* getMetrics(paragraphs), run to completion
getMetrics(settings, paragraphs, env, subj) ==
    RunResolver(ResolverStart(settings, paragraphs, env, subj))

\* The outcomes of the remote requests of one call, and this.settings
DefaultEnv ==
    [http |-> "neterr", emb |-> "throw", chat |-> "fail", content |-> "garbage",
     roles |-> "ok"]

MkSettings(mode, endpoint, key, method, classify, topic) ==
    [backendMode |-> mode, httpEndpoint |-> endpoint, apiKey |-> key,
     snrMethod |-> method, classifyRoles |-> classify, topic |-> topic,
     embeddingModel |-> "text-embedding-3-small"]

\* ------------------------------------------------------------------------
\* The plugin and its workspace
\* ------------------------------------------------------------------------
Files == {"A", "B"}
\* app.workspace.getActiveFile() === null
NoFile == "none"
\* The notes of the vault when the plugin is loaded
InitialNotes ==
    [f \in Files |-> IF f = "A" THEN << "a", NL, NL, "a" >> ELSE << "a" >>]
\* What the user types
Alphabet == {"a", SP, NL}

\* this.settings of the pipeline: the HTTP scoring service
PipelineSettings == MkSettings("server", TRUE, FALSE, "embedding", FALSE, << >>)
\* The answers of the service to one request
PipelineEnvs == {[DefaultEnv EXCEPT !.http = h] : h \in {"good", "short", "outofrange"}}

\* this.metricsCache === null
NullCache == [isNull |-> TRUE]
\* a metricsCache object without the `ranges` property
NoRanges == [isNull |-> TRUE]
\* this._currentAnalysis === null, this._analysisTimeout === null
NoContext == 0
NoTimer == 0
\* setTimeout(..., 1000)
QuietWindow == 1000

NoWrite == [by |-> "none"]
NoFire == [fired |-> FALSE]

\* The state of the plugin and of the workspace as one record
World ==
    [activeFile |-> activeFile, notes |-> notes, metricsCache |-> metricsCache,
     metricsVersion |-> metricsVersion, currentAnalysis |-> currentAnalysis,
     analyses |-> analyses, decorating |-> decorating, partials |-> partials,
     timers |-> timers, analysisTimeout |-> analysisTimeout, busy |-> busy,
     subjectEmbeddingCache |-> subjectEmbeddingCache, nextId |-> nextId,
     events |-> events, renders |-> renders,
     changedIndices |-> changedIndices, lastWrite |-> lastWrite,
     submitted |-> submitted, dropped |-> dropped, sinceSubmit |-> sinceSubmit,
     lastFire |-> lastFire, emptied |-> emptied, shown |-> shown,
     decorations |-> decorations, call |-> call]

Commit(w) ==
    /\ activeFile' = w.activeFile
    /\ notes' = w.notes
    /\ metricsCache' = w.metricsCache
    /\ metricsVersion' = w.metricsVersion
    /\ currentAnalysis' = w.currentAnalysis
    /\ analyses' = w.analyses
    /\ decorating' = w.decorating
    /\ partials' = w.partials
    /\ timers' = w.timers
    /\ analysisTimeout' = w.analysisTimeout
    /\ busy' = w.busy
    /\ subjectEmbeddingCache' = w.subjectEmbeddingCache
    /\ nextId' = w.nextId
    /\ events' = w.events
    /\ renders' = w.renders
    /\ changedIndices' = w.changedIndices
    /\ lastWrite' = w.lastWrite
    /\ submitted' = w.submitted
    /\ dropped' = w.dropped
    /\ sinceSubmit' = w.sinceSubmit
    /\ lastFire' = w.lastFire
    /\ emptied' = w.emptied
    /\ shown' = w.shown
    /\ decorations' = w.decorations
    /\ call' = w.call

\* No helper function is followed
NoCall == [fn |-> "none"]

\* this.decorations = Decoration.none, with the default normalizeRanges: true
NoDecorations == [normalizeRanges |-> TRUE, built |-> FALSE, values |-> << >>]

\* onload(): the fields the constructor of the plugin sets, no note open
PluginInit ==
    /\ activeFile = NoFile
    /\ notes = InitialNotes
    /\ metricsCache = NullCache
    /\ metricsVersion = 0
    /\ currentAnalysis = NoContext
    /\ analyses = {}
    /\ decorating = {}
    /\ partials = {}
    /\ timers = {}
    /\ analysisTimeout = NoTimer
    /\ busy = FALSE
    /\ subjectEmbeddingCache = NoSubj
    /\ nextId = 1
    /\ events = 0
    /\ renders = 0
    /\ changedIndices = {}
    /\ lastWrite = NoWrite
    /\ submitted = {}
    /\ dropped = {}
    /\ sinceSubmit = QuietWindow
    /\ lastFire = NoFire
    /\ emptied = {}
    /\ shown = << >>
    /\ decorations = NoDecorations

PipelineInit == PluginInit /\ call = NoCall

pipelineVars ==
    << activeFile, notes, metricsCache, metricsVersion, currentAnalysis, analyses,
       decorating, partials, timers, analysisTimeout, busy, subjectEmbeddingCache,
       nextId, events, renders, changedIndices, lastWrite, submitted, dropped,
       sinceSubmit, lastFire, emptied, shown, decorations, call >>

\* ------------------------------------------------------------------------
\* Full analysis: reanalyzeForced and reanalyze up to their first await
\* ------------------------------------------------------------------------
\* clearTimeout(handle)
clearTimeout(ts, handle) == {t \in ts : t.id # handle}

\* if (this._analysisTimeout) { clearTimeout(...); this._analysisTimeout = null }
CancelDebounce(w) ==
    IF w.analysisTimeout # NoTimer
    THEN [w EXCEPT !.timers = clearTimeout(@, w.analysisTimeout),
                   !.analysisTimeout = NoTimer,
                   !.dropped = w.submitted]
    ELSE w

\* if (this._currentAnalysis) this._currentAnalysis.cancelled = true
CancelCurrent(w) ==
    [w EXCEPT !.analyses =
        {IF a.id = w.currentAnalysis /\ a.pc = "resolve"
         THEN [a EXCEPT !.cancelled = TRUE] ELSE a : a \in @}]

\* if (this.metricsCache && this.metricsCache.file !== file.path) { ... = null }
ClearForeignCache(w) ==
    IF ~w.metricsCache.isNull /\ w.metricsCache.file # w.activeFile
    THEN [w EXCEPT !.metricsCache = NullCache, !.subjectEmbeddingCache = NoSubj,
                   !.emptied = @ \cup {w.metricsCache.file}]
    ELSE w

\* The call suspended at `await this.app.vault.read(file)`
StartRead(w, kind) ==
    [w EXCEPT !.analyses = @ \cup {[id |-> w.nextId, kind |-> kind,
                                     file |-> w.activeFile, pc |-> "read",
                                     paragraphs |-> << >>, cancelled |-> FALSE]},
              !.nextId = @ + 1]

\* reanalyzeForced() up to the vault read
reanalyzeForced(w) ==
    IF w.activeFile = NoFile THEN w
    ELSE StartRead(ClearForeignCache(CancelCurrent(CancelDebounce(w))), "forced")

\* reanalyze() up to the vault read: the pending debounce timer is left alone
reanalyze(w) ==
    IF w.activeFile = NoFile THEN w
    ELSE StartRead(ClearForeignCache(CancelCurrent(w)), "plain")

\* ------------------------------------------------------------------------
\* The editor extension: computeDecorations and update
\* ------------------------------------------------------------------------
\* computeDecorations() after its call of reanalyzeForced: the cached metrics
\* when the cache is of the active note and has as many paragraphs as the
\* document, else the call suspends at `await plugin.getMetrics(paragraphs)`
AcquireMetrics(w, paragraphs) ==
    IF /\ ~w.metricsCache.isNull
       /\ w.metricsCache.file = w.activeFile
       /\ Len(w.metricsCache.paragraphs) = Len(paragraphs)
    THEN w
    ELSE [w EXCEPT !.decorating = @ \cup {[id |-> w.nextId, file |-> w.activeFile,
                                            paragraphs |-> paragraphs]},
                   !.nextId = @ + 1]

computeDecorations(w) ==
    IF w.activeFile = NoFile THEN w
    ELSE AcquireMetrics(
             IF w.metricsCache.isNull \/ w.metricsCache.file # w.activeFile
             THEN reanalyzeForced(w) ELSE w,
             splitIntoParagraphs(w.notes[w.activeFile]))

\* _forceRefreshEditors(): the editor's update() with the refresh annotation
\* and an unchanged document
forceRefreshEditors(w) == computeDecorations(w)

\* state.doc.line(i) for every line: [from, to), the line break excluded
RECURSIVE DocLines(_, _, _)
DocLines(doc, pos, from) ==
    IF pos = Len(doc) THEN << [from |-> from, to |-> pos] >>
    ELSE IF doc[pos + 1] = NL
         THEN << [from |-> from, to |-> pos] >> \o DocLines(doc, pos + 1, pos + 1)
         ELSE DocLines(doc, pos + 1, from)

\* The loop over the lines that builds paraRanges
RECURSIVE ParaRangesFrom(_, _, _, _)
ParaRangesFrom(doc, lines, i, currentParaStart) ==
    IF i > Len(lines)
    THEN IF Len(doc) > currentParaStart
         THEN << [from |-> currentParaStart, to |-> Len(doc)] >>
         ELSE << >>
    ELSE IF Trim(Slice(doc, lines[i].from, lines[i].to)) = << >>
         THEN (IF lines[i].from > currentParaStart
               THEN << [from |-> currentParaStart, to |-> lines[i].from] >>
               ELSE << >>)
              \o ParaRangesFrom(doc, lines, i + 1, lines[i].to + 1)
         ELSE ParaRangesFrom(doc, lines, i + 1, currentParaStart)

ParaRanges(doc) == ParaRangesFrom(doc, DocLines(doc, 0, 0), 1, 0)

\* state.doc.sliceString(para.from, para.to).trim()
ParaText(doc, para) == Trim(Slice(doc, para.from, para.to))

\* A change of the document: [from, to) of the old document replaced by insert
ApplyChange(doc, c) == Slice(doc, 0, c.from) \o c.insert \o Slice(doc, c.to, Len(doc))

\* update.changes.iterChangedRanges: the range of the new document
ChangedRanges(c) == {[from |-> c.from, to |-> c.from + Len(c.insert)]}

\* r.from < para.to && r.to > para.from, for some changed range r
Intersects(para, changedRanges) ==
    \E r \in changedRanges : r.from < para.to /\ r.to > para.from

\* changedIndices of update(): the 0-based indices of the paragraphs marked
DirtyIndices(paraRanges, changedRanges) ==
    {i \in 0..(Len(paraRanges) - 1) : Intersects(paraRanges[i + 1], changedRanges)}

\* { snr: 0, complexity, topic: 0, role: '' } of a paragraph scored locally
LocalMetric(paraText) ==
    [snr |-> 0, complexity |-> HeuristicComplexity(paraText), topic |-> 0,
     role |-> ""]

\* prev of update(): the cache when it is of the active note, else null
PrevCache(w) ==
    IF ~w.metricsCache.isNull /\ w.metricsCache.file = w.activeFile
    THEN w.metricsCache ELSE NullCache

\* newMetrics with every paragraph scored locally, none taken from prev
CarryOver_NoReuse(doc, paraRanges, dirty, prev) ==
    [k \in 1..Len(paraRanges) |-> LocalMetric(ParaText(doc, paraRanges[k]))]

\* newMetrics[i]: the previous object of a paragraph not marked, else a
\* local one
CarryOver(doc, paraRanges, dirty, prev) ==
    [k \in 1..Len(paraRanges) |->
        IF (k - 1) \notin dirty /\ ~prev.isNull /\ k <= Len(prev.metrics)
        THEN prev.metrics[k]
        ELSE LocalMetric(ParaText(doc, paraRanges[k]))]

\* The cache update() writes
UpdatedCache(file, doc, paraRanges, dirty, prev) ==
    [isNull |-> FALSE, file |-> file,
     metrics |-> CarryOver(doc, paraRanges, dirty, prev),
     paragraphs |-> [k \in 1..Len(paraRanges) |-> ParaText(doc, paraRanges[k])],
     ranges |-> IF ~prev.isNull /\ ~prev.ranges.isNull THEN prev.ranges ELSE NoRanges]

\* The smallest timer handle not in use
FreshTimer(ts) == CHOOSE n \in 1..(Cardinality(ts) + 1) : \A t \in ts : t.id # n

\* setTimeout(callback, 1000), the callback closing over `indices`
SetTimer(w, indices) ==
    [w EXCEPT !.timers = @ \cup {[id |-> FreshTimer(w.timers),
                                   remaining |-> QuietWindow,
                                   indices |-> indices]},
              !.analysisTimeout = FreshTimer(w.timers),
              !.submitted = @ \cup indices,
              !.dropped = @ \ indices,
              !.sinceSubmit = 0]

\* reanalyzeWithDebounce leaving the pending timer running
reanalyzeWithDebounce_NoClear(w, indices) == SetTimer(w, indices)

\* reanalyzeWithDebounce(indices)
reanalyzeWithDebounce(w, indices) ==
    SetTimer(IF w.analysisTimeout # NoTimer
             THEN [w EXCEPT !.timers = clearTimeout(@, w.analysisTimeout)]
             ELSE w,
             indices)

\* update() writing the cache, then scheduling the marked paragraphs
MarkAndSchedule(w, paraRanges, dirty) ==
    LET w1 == [w EXCEPT
                 !.metricsCache = UpdatedCache(w.activeFile, w.notes[w.activeFile],
                                               paraRanges, dirty, PrevCache(w)),
                 !.metricsVersion = @ + 1,
                 !.changedIndices = dirty,
                 !.lastWrite = [by |-> "update", file |-> w.activeFile,
                                active |-> w.activeFile, id |-> 0]]
    IN IF dirty # {} THEN reanalyzeWithDebounce(w1, dirty) ELSE w1

\* update(update) with update.docChanged, the view holding the new document
UpdateDocChanged(w, changedRanges, paraRanges) ==
    computeDecorations(
        MarkAndSchedule(w, paraRanges, DirtyIndices(paraRanges, changedRanges)))

update(w, changedRanges) ==
    IF w.activeFile = NoFile THEN w
    ELSE UpdateDocChanged(w, changedRanges, ParaRanges(w.notes[w.activeFile]))

\* ------------------------------------------------------------------------
\* What the awaited calls resume with
\* ------------------------------------------------------------------------
\* ranges that do not look at the metrics
Ranges_Defaults(metrics) ==
    [isNull |-> FALSE, snrMin |-> 0, snrMax |-> Scale, compMin |-> 0,
     compMax |-> Scale]

\* ranges of a full analysis
Ranges(metrics) ==
    IF metrics = << >>
    THEN [isNull |-> FALSE, snrMin |-> 0, snrMax |-> Scale, compMin |-> 0,
          compMax |-> Scale]
    ELSE [isNull |-> FALSE,
          snrMin |-> SeqMin([k \in 1..Len(metrics) |-> NumOr0(metrics[k].snr)]),
          snrMax |-> SeqMax([k \in 1..Len(metrics) |-> NumOr0(metrics[k].snr)]),
          compMin |-> SeqMin([k \in 1..Len(metrics) |-> NumOr0(metrics[k].complexity)]),
          compMax |-> SeqMax([k \in 1..Len(metrics) |-> NumOr0(metrics[k].complexity)])]

\* view.renderMetrics(this.metricsCache) of the card view
renderMetrics(w) == [w EXCEPT !.renders = @ + 1]

\* .finally(() => { if (this._currentAnalysis === analysisContext) showBusy(false) })
Finally(w, a) == IF w.currentAnalysis = a.id THEN [w EXCEPT !.busy = FALSE] ELSE w

\* The analysis a leaves the set of suspended calls
Retire(w, a) == [w EXCEPT !.analyses = @ \ {a}]

\* The tail of a full analysis that was not cancelled
Publish(w, a, metrics) ==
    renderMetrics(forceRefreshEditors(
        [w EXCEPT !.metricsCache = [isNull |-> FALSE, file |-> a.file,
                                    metrics |-> metrics,
                                    paragraphs |-> a.paragraphs,
                                    ranges |-> Ranges(metrics)],
                  !.metricsVersion = @ + 1,
                  !.lastWrite = [by |-> a.kind, file |-> a.file,
                                 active |-> w.activeFile, id |-> a.id]]))

\* The continuation of a full analysis publishing without looking at
\* analysisContext.cancelled
AfterMetrics_NoCancelCheck(w, a, r) ==
    Publish([Retire(Finally(w, a), a) EXCEPT !.subjectEmbeddingCache = r.subj,
                                       !.shown = r.notices],
            a, r.metrics)

\* reanalyzeForced / reanalyze from the moment getMetrics resolved with r
AfterMetrics(w, a, r) ==
    IF a.cancelled
    THEN [Retire(Finally(w, a), a) EXCEPT !.subjectEmbeddingCache = r.subj,
                                       !.shown = r.notices]
    ELSE Publish([Retire(Finally(w, a), a) EXCEPT !.subjectEmbeddingCache = r.subj,
                                       !.shown = r.notices],
                 a, r.metrics)

\* computeDecorations from the moment getMetrics resolved with r
AfterDecorationMetrics(w, d, r) ==
    [w EXCEPT !.decorating = @ \ {d},
              !.subjectEmbeddingCache = r.subj,
              !.shown = r.notices,
              !.metricsCache = [isNull |-> FALSE, file |-> d.file,
                                metrics |-> r.metrics, paragraphs |-> d.paragraphs,
                                ranges |-> NoRanges],
              !.lastWrite = [by |-> "decorations", file |-> d.file,
                             active |-> w.activeFile, id |-> d.id]]

\* ------------------------------------------------------------------------
\* Partial recompute: recomputeMetricsForIndices and the debounce callback
\* ------------------------------------------------------------------------
RECURSIVE SortedSeq(_)
SortedSeq(S) ==
    IF S = {} THEN << >>
    ELSE LET m == CHOOSE x \in S : \A y \in S : x <= y
         IN << m >> \o SortedSeq(S \ {m})

\* Array.from(new Set(indices.filter((i) => i >= 0 && i < paragraphs.length)))
UniqIndices(paragraphs, indices) ==
    SortedSeq({i \in indices : i >= 0 /\ i < Len(paragraphs)})

\* { snrByIndex, complexityByIndex } as two arrays along uniqIndices, with the
\* subject-embedding slot the call leaves
PartialResult(uniq, snr, complexity, subj) ==
    [uniq |-> uniq, snr |-> snr, complexity |-> complexity, subj |-> subj]

\* applyHeuristics()
applyHeuristics(uniq, heurSubset, subj) ==
    PartialResult(uniq, [k \in 1..Len(uniq) |-> heurSubset[k].snr],
                  [k \in 1..Len(uniq) |-> heurSubset[k].complexity], subj)

\* data[k] || {} read as a metric: the field, or Null when it is no number
ItemField(data, k, field) ==
    IF k > Len(data) \/ IsNullItem(data[k]) THEN Null ELSE data[k][field]

\* The 'server' branch on the answer res of the service
PartialServer(uniq, heurSubset, res, subj) ==
    CASE res.kind \in {"throw", "notok"} -> applyHeuristics(uniq, heurSubset, subj)
      [] res.kind = "value" ->
            IF res.isNull THEN applyHeuristics(uniq, heurSubset, subj)
            ELSE PartialResult(uniq, [k \in 1..Len(uniq) |-> 0],
                               [k \in 1..Len(uniq) |-> heurSubset[k].complexity], subj)
      [] OTHER ->
            PartialResult(uniq,
                [k \in 1..Len(uniq) |-> NumOr0(ItemField(res.data, k, "snr"))],
                [k \in 1..Len(uniq) |->
                    IF ItemField(res.data, k, "complexity") # Null
                    THEN ItemField(res.data, k, "complexity")
                    ELSE heurSubset[k].complexity],
                subj)

\* The embedding branch once the subject embedding is known
PartialEmbedding(uniq, heurSubset, subjectEmb, f, subj) ==
    IF f.kind = "throw"
       \/ (uniq # << >> /\ IsUndefined(subjectEmb))
       \/ \E k \in 1..Len(uniq) : IsUndefined(At(f.embs, k - 1))
    THEN applyHeuristics(uniq, heurSubset, subj)
    ELSE PartialResult(uniq,
             [k \in 1..Len(uniq) |-> cosineSimilarity(subjectEmb.v, f.embs[k].v)],
             [k \in 1..Len(uniq) |-> heurSubset[k].complexity], subj)

\* The embedding branch: the cached subject embedding, or a request for it
PartialSubject(settings, paragraphs, uniq, heurSubset, env, subj) ==
    IF /\ ~subj.isNull
       /\ subj.text = SubjectOf(settings, paragraphs)
       /\ subj.model = settings.embeddingModel
    THEN PartialEmbedding(uniq, heurSubset, subj.embedding,
                          EmbFetch(env.emb, Len(uniq)), subj)
    ELSE IF EmbFetch(env.emb, 1).kind = "throw"
         THEN applyHeuristics(uniq, heurSubset, subj)
         ELSE PartialEmbedding(uniq, heurSubset, At(EmbFetch(env.emb, 1).embs, 0),
                  EmbFetch(env.emb, Len(uniq)),
                  [isNull |-> FALSE, text |-> SubjectOf(settings, paragraphs),
                   model |-> settings.embeddingModel,
                   embedding |-> At(EmbFetch(env.emb, 1).embs, 0)])

\* The direct-scoring branch after the chat completion: the scores, and the
\* embeddings when every score is zero
PartialLlm(uniq, heurSubset, obj, f, subj) ==
    LET s == [k \in 1..Len(uniq) |->
                 IF obj.scores.isArray /\ k <= Len(obj.scores.arr)
                 THEN NumOr0(obj.scores.arr[k]) ELSE 0]
        c == [k \in 1..Len(uniq) |->
                 IF obj.complexity.isArray /\ k <= Len(obj.complexity.arr)
                    /\ obj.complexity.arr[k] # Null
                 THEN obj.complexity.arr[k] ELSE heurSubset[k].complexity]
        \* the entries the loop over embs assigns before it ends or throws
        reach == IF f.kind = "throw" \/ f.embs = << >> \/ IsUndefined(f.embs[1])
                 THEN 0
                 ELSE IF \E k \in 2..Len(f.embs) : IsUndefined(f.embs[k])
                      THEN (CHOOSE k \in 2..Len(f.embs) :
                               /\ IsUndefined(f.embs[k])
                               /\ \A j \in 2..(k - 1) : ~IsUndefined(f.embs[j])) - 2
                      ELSE Len(f.embs) - 1
    IN IF \A k \in 1..Len(uniq) : s[k] = 0
       THEN PartialResult(uniq,
                [k \in 1..Len(uniq) |->
                    IF k <= reach THEN cosineSimilarity(f.embs[1].v, f.embs[k + 1].v)
                    ELSE s[k]],
                c, subj)
       ELSE PartialResult(uniq, s, c, subj)

\* recomputeMetricsForIndices(paragraphs, indices) on the subset heurSubset
\* was computed for
PartialBranch(settings, paragraphs, uniq, heurSubset, env, subj) ==
    IF settings.backendMode = "server"
    THEN PartialServer(uniq, heurSubset, HttpFetch(env.http, Len(uniq)), subj)
    ELSE IF settings.backendMode = "openai"
            \/ (settings.backendMode = "auto" /\ settings.apiKey)
    THEN IF settings.snrMethod = "embedding"
         THEN PartialSubject(settings, paragraphs, uniq, heurSubset, env, subj)
         ELSE IF callOpenAiChat(env.chat).kind = "throw"
              THEN applyHeuristics(uniq, heurSubset, subj)
              ELSE PartialLlm(uniq, heurSubset,
                              parseLlmScoresAndComplexity(env.content, Len(uniq)),
                              EmbFetch(env.emb, Len(uniq) + 1), subj)
    ELSE applyHeuristics(uniq, heurSubset, subj)

SubsetParas(paragraphs, uniq) == [k \in 1..Len(uniq) |-> paragraphs[uniq[k] + 1]]

recomputeMetricsForIndices(settings, paragraphs, indices, env, subj) ==
    IF UniqIndices(paragraphs, indices) = << >>
    THEN PartialResult(<< >>, << >>, << >>, subj)
    ELSE PartialBranch(settings, paragraphs, UniqIndices(paragraphs, indices),
             computeHeuristicMetrics(
                 SubsetParas(paragraphs, UniqIndices(paragraphs, indices)),
                 settings.topic),
             env, subj)

\* The position of index i in uniq, 0 when it has no entry (hasOwnProperty)
PosIn(uniq, i) ==
    IF \E k \in 1..Len(uniq) : uniq[k] = i
    THEN CHOOSE k \in 1..Len(uniq) : uniq[k] = i ELSE 0

\* indices.forEach(...): the metric objects of the cache updated in place
ApplyPartial(metrics, indices, partial) ==
    [k \in 1..Len(metrics) |->
        IF (k - 1) \in indices /\ PosIn(partial.uniq, k - 1) # 0
        THEN [metrics[k] EXCEPT
                 !.snr = NumOr0(partial.snr[PosIn(partial.uniq, k - 1)]),
                 !.topic = NumOr0(partial.snr[PosIn(partial.uniq, k - 1)]),
                 !.complexity =
                     IF partial.complexity[PosIn(partial.uniq, k - 1)] # Null
                     THEN partial.complexity[PosIn(partial.uniq, k - 1)] ELSE @]
        ELSE metrics[k]]

\* The callback applying its result to whatever cache there is, without
\* comparing metricsCache.file with the path of its note
AfterPartial_NoFileCheck(w, p, partial) ==
    IF ~w.metricsCache.isNull
    THEN [renderMetrics(forceRefreshEditors(
              [w EXCEPT !.partials = @ \ {p},
                        !.subjectEmbeddingCache = partial.subj,
                        !.metricsCache.metrics = ApplyPartial(@, p.indices, partial),
                        !.metricsVersion = @ + 1,
                        !.lastWrite = [by |-> "partial", file |-> p.file,
                                       active |-> w.activeFile, id |-> p.id]]))
          EXCEPT !.busy = FALSE]
    ELSE [w EXCEPT !.partials = @ \ {p}, !.subjectEmbeddingCache = partial.subj,
                   !.busy = FALSE]

\* The debounce callback from the moment recomputeMetricsForIndices resolved
AfterPartial(w, p, partial) ==
    IF ~w.metricsCache.isNull /\ w.metricsCache.file = p.file
    THEN [renderMetrics(forceRefreshEditors(
              [w EXCEPT !.partials = @ \ {p},
                        !.subjectEmbeddingCache = partial.subj,
                        !.metricsCache.metrics = ApplyPartial(@, p.indices, partial),
                        !.metricsVersion = @ + 1,
                        !.lastWrite = [by |-> "partial", file |-> p.file,
                                       active |-> w.activeFile, id |-> p.id]]))
          EXCEPT !.busy = FALSE]
    ELSE [w EXCEPT !.partials = @ \ {p}, !.subjectEmbeddingCache = partial.subj,
                   !.busy = FALSE]

\* The timer t expires: the debounce callback up to its vault read
TimerCallback(w, t) ==
    IF w.activeFile = NoFile THEN w
    ELSE [w EXCEPT !.partials = @ \cup {[id |-> w.nextId, file |-> w.activeFile,
                                          pc |-> "read", indices |-> t.indices,
                                          paragraphs |-> << >>]},
                   !.nextId = @ + 1]

\* resetAnalysisCache without its call of _forceRefreshEditors
resetAnalysisCache_NoRefresh(w, triggerReanalyze) ==
    IF triggerReanalyze
    THEN reanalyze([w EXCEPT !.subjectEmbeddingCache = NoSubj,
                             !.metricsCache = NullCache,
                             !.metricsVersion = @ + 1])
    ELSE [w EXCEPT !.subjectEmbeddingCache = NoSubj, !.metricsCache = NullCache,
                   !.metricsVersion = @ + 1]

\* resetAnalysisCache(triggerReanalyze)
resetAnalysisCache(w, triggerReanalyze) ==
    IF triggerReanalyze
    THEN reanalyze(forceRefreshEditors(
             [w EXCEPT !.subjectEmbeddingCache = NoSubj, !.metricsCache = NullCache,
                       !.metricsVersion = @ + 1]))
    ELSE forceRefreshEditors(
             [w EXCEPT !.subjectEmbeddingCache = NoSubj, !.metricsCache = NullCache,
                       !.metricsVersion = @ + 1])

\* ------------------------------------------------------------------------
\* Spec: the pipeline under every interleaving of the user's actions, the
\* clock and the resumptions of the suspended calls
\* ------------------------------------------------------------------------
\* The one-character changes of a document: an insertion, a deletion or a
\* replacement
Changes(doc, alphabet) ==
    {c \in [from : 0..Len(doc), to : 0..Len(doc),
            insert : {<< >>} \cup {<< ch >> : ch \in alphabet}] :
        /\ c.to \in {c.from, c.from + 1}
        /\ (c.to = c.from => c.insert # << >>)
        /\ (c.to = c.from + 1 /\ c.insert # << >> => c.insert[1] # doc[c.to])
        /\ Len(ApplyChange(doc, c)) <= MaxDocLen}

\* 'file-open': the note f becomes the active one
OpenFile(f) ==
    /\ events < MaxEvents
    /\ f # activeFile
    /\ Commit(reanalyzeForced([World EXCEPT !.activeFile = f,
                                            !.emptied = {},
                                            !.events = @ + 1]))
    /\ UNCHANGED resolution

\* The command 'Analyze Current Note'
AnalyzeCommand ==
    /\ events < MaxEvents
    /\ activeFile # NoFile
    /\ Commit(reanalyzeForced([World EXCEPT !.events = @ + 1]))
    /\ UNCHANGED resolution

\* The chat model is changed in the settings tab; it starts two full analyses
\* and counts as two events
ChatModelChanged ==
    /\ events + 1 < MaxEvents
    /\ activeFile # NoFile
    /\ Commit(resetAnalysisCache([World EXCEPT !.events = @ + 2], TRUE))
    /\ UNCHANGED resolution

\* What the user types in a run of the pipeline: the letter "a" put in, or a
\* character taken out, at either end of the document
Typing(doc) ==
    {c \in Changes(doc, Alphabet) :
        /\ c.insert \in {<< >>, << "a" >>}
        /\ c.to = c.from \/ c.insert = << >>
        /\ c.from = 0 \/ c.to = Len(doc)}

\* The user changes the document of the active note
Edit(c) ==
    /\ events < MaxEvents
    /\ activeFile # NoFile
    /\ Commit(update([World EXCEPT !.notes[activeFile] = ApplyChange(@, c),
                                   !.events = @ + 1],
                     ChangedRanges(c)))
    /\ UNCHANGED resolution

\* vault.read resolves in a full analysis: the context is created and
\* getMetrics is called
FullRead(a) ==
    /\ a.pc = "read"
    /\ Commit([World EXCEPT
                 !.analyses = (@ \ {a}) \cup
                     {[a EXCEPT !.pc = "resolve",
                                !.paragraphs = splitIntoParagraphs(notes[a.file])]},
                 !.currentAnalysis = a.id,
                 !.busy = TRUE])
    /\ UNCHANGED resolution

\* getMetrics resolves in a full analysis
FullResolve(a, env) ==
    /\ a.pc = "resolve"
    /\ Commit(AfterMetrics(World, a,
                  getMetrics(PipelineSettings, a.paragraphs, env,
                             subjectEmbeddingCache)))
    /\ UNCHANGED resolution

\* getMetrics resolves in computeDecorations
DecorationResolve(d, env) ==
    /\ Commit(AfterDecorationMetrics(World, d,
                  getMetrics(PipelineSettings, d.paragraphs, env,
                             subjectEmbeddingCache)))
    /\ UNCHANGED resolution

\* Time passes, up to the next expiry
Tick ==
    /\ \A t \in timers : t.remaining > 0
    /\ LET d == IF \E t \in timers : t.remaining < TickMs
                THEN CHOOSE r \in {t.remaining : t \in timers} :
                         \A t \in timers : r <= t.remaining
                ELSE TickMs
       IN Commit([World EXCEPT
                    !.timers = {[t EXCEPT !.remaining = @ - d] : t \in @},
                    !.sinceSubmit = Min2(@ + d, QuietWindow)])
    /\ UNCHANGED resolution

\* The debounce timer t expires
TimerFire(t) ==
    /\ t.remaining = 0
    /\ Commit(TimerCallback(
                  [World EXCEPT !.timers = @ \ {t},
                                !.analysisTimeout = NoTimer,
                                !.submitted = {},
                                !.dropped = {},
                                !.lastFire = [fired |-> TRUE, indices |-> t.indices,
                                              submitted |-> submitted \ dropped,
                                              elapsed |-> sinceSubmit]],
                  t))
    /\ UNCHANGED resolution

\* vault.read resolves in the debounce callback: recomputeMetricsForIndices
\* is called
PartialRead(p) ==
    /\ p.pc = "read"
    /\ Commit([World EXCEPT
                 !.partials = (@ \ {p}) \cup
                     {[p EXCEPT !.pc = "resolve",
                                !.paragraphs = splitIntoParagraphs(notes[p.file])]},
                 !.busy = TRUE])
    /\ UNCHANGED resolution

\* recomputeMetricsForIndices resolves in the debounce callback
PartialResolve(p, env) ==
    /\ p.pc = "resolve"
    /\ Commit(AfterPartial(World, p,
                  recomputeMetricsForIndices(PipelineSettings, p.paragraphs,
                                             p.indices, env,
                                             subjectEmbeddingCache)))
    /\ UNCHANGED resolution

Init ==
    /\ PipelineInit
    /\ resolution = ResolverStart(PipelineSettings, << >>, DefaultEnv, NoSubj)

Next ==
    \/ \E f \in Files : OpenFile(f)
    \/ AnalyzeCommand
    \/ ChatModelChanged
    \/ activeFile # NoFile /\ \E c \in Typing(notes[activeFile]) : Edit(c)
    \/ \E a \in analyses : FullRead(a)
    \/ \E a \in analyses, env \in PipelineEnvs : FullResolve(a, env)
    \/ \E d \in decorating, env \in PipelineEnvs : DecorationResolve(d, env)
    \/ Tick
    \/ \E t \in timers : TimerFire(t)
    \/ \E p \in partials : PartialRead(p)
    \/ \E p \in partials, env \in PipelineEnvs : PartialResolve(p, env)

Spec == Init /\ [][Next]_vars

\* ------------------------------------------------------------------------
\* One edit of an analysed note and what follows it: the note "A" is open
\* with any short document, its full analysis has published, the user
\* changes one character anywhere, and the calls this starts run
\* ------------------------------------------------------------------------
RECURSIVE DocsOfLen(_)
DocsOfLen(n) ==
    IF n = 0 THEN {<< >>}
    ELSE {Append(d, ch) : d \in DocsOfLen(n - 1), ch \in Alphabet}

UpdateDocs == UNION {DocsOfLen(n) : n \in 0..(MaxDocLen - 1)}

\* this.metricsCache = { file, metrics, paragraphs, ranges } of a full
\* analysis of doc
AnalysedCache(file, paragraphs, metrics) ==
    [isNull |-> FALSE, file |-> file, metrics |-> metrics,
     paragraphs |-> paragraphs, ranges |-> Ranges(metrics)]

\* The note "A" is open with the document doc and its full analysis has
\* published the metrics and shown the notices given
AnalysedWith(doc, metrics, notices) ==
    /\ activeFile = "A"
    /\ notes = [InitialNotes EXCEPT !["A"] = doc]
    /\ metricsCache = AnalysedCache("A", splitIntoParagraphs(doc), metrics)
    /\ metricsVersion = 1
    /\ currentAnalysis = 1
    /\ analyses = {}
    /\ decorating = {}
    /\ partials = {}
    /\ timers = {}
    /\ analysisTimeout = NoTimer
    /\ busy = FALSE
    /\ subjectEmbeddingCache = NoSubj
    /\ nextId = 2
    /\ renders = 1
    /\ changedIndices = {}
    /\ lastWrite = [by |-> "forced", file |-> "A", active |-> "A", id |-> 1]
    /\ submitted = {}
    /\ dropped = {}
    /\ sinceSubmit = QuietWindow
    /\ lastFire = NoFire
    /\ emptied = {}
    /\ shown = notices
    /\ resolution = ResolverStart(PipelineSettings, << >>, DefaultEnv, NoSubj)

\* ... answered as env says
AnalysedNote(doc, env) ==
    /\ AnalysedWith(doc,
          getMetrics(PipelineSettings, splitIntoParagraphs(doc), env, NoSubj).metrics,
          getMetrics(PipelineSettings, splitIntoParagraphs(doc), env, NoSubj).notices)
    /\ decorations = NoDecorations
    /\ call = NoCall

InitUpdate ==
    /\ events = MaxEvents - 1
    /\ \E doc \in UpdateDocs, env \in PipelineEnvs : AnalysedNote(doc, env)

NextUpdate ==
    \/ \E c \in Changes(notes[activeFile], Alphabet) : Edit(c)
    \/ \E d \in decorating, env \in PipelineEnvs : DecorationResolve(d, env)
    \/ Tick
    \/ \E t \in timers : TimerFire(t)
    \/ \E p \in partials : PartialRead(p)
    \/ \E p \in partials, env \in PipelineEnvs : PartialResolve(p, env)

SpecUpdate == InitUpdate /\ [][NextUpdate]_vars

\* ------------------------------------------------------------------------
\* The pipeline from an analysed note: the note "A" is open, its full
\* analysis has published, and the user's events follow
\* ------------------------------------------------------------------------
InitAnalysed ==
    /\ events = 0
    /\ \E env \in PipelineEnvs : AnalysedNote(InitialNotes["A"], env)

SpecAnalysed == InitAnalysed /\ [][Next]_vars

\* ------------------------------------------------------------------------
\* SpecResolver: one call of getMetrics on every configuration, paragraph
\* list and combination of remote outcomes
\* ------------------------------------------------------------------------
ParaAB == << "a", "b" >>
ParaAA == << "a", SP, "a" >>
ResolverParagraphs == { << >>, << ParaAB, ParaAA >> }
ResolverTopics == { << >>, << "a" >> }

\* Every configuration; the settings a mode never reads stay at their defaults.
ResolverSettings ==
    {MkSettings(m, ep, key, meth, cl, t) :
        m \in BackendModes, ep \in BOOLEAN, key \in BOOLEAN,
        meth \in {"embedding", "llm"}, cl \in BOOLEAN, t \in ResolverTopics}

HttpRead(s) == s.backendMode \in {"server", "auto"} /\ s.httpEndpoint
LlmRead(s) == s.backendMode \in {"openai", "auto"} /\ s.apiKey

SettingsRelevant(s) ==
    /\ (~LlmRead(s) => s.snrMethod = "embedding" /\ ~s.classifyRoles)
    /\ (s.backendMode = "heuristic" => ~s.httpEndpoint /\ ~s.apiKey)

\* The outcomes of the requests the configuration can send; the profile of a
\* request that cannot be sent stays at its default.
EnvRelevant(s, e) ==
    /\ (~HttpRead(s) => e.http = DefaultEnv.http)
    /\ (s.backendMode = "auto" /\ LlmRead(s) => e.http \in {"neterr", "good", "short"})
    /\ (~(LlmRead(s) /\ s.snrMethod = "llm") => e.chat = DefaultEnv.chat)
    /\ (e.chat \notin {"ok", "retryok"} => e.content = DefaultEnv.content)
    /\ (~(LlmRead(s) /\ (s.snrMethod = "embedding" \/ e.chat \in {"ok", "retryok"}))
            => e.emb = DefaultEnv.emb)
    /\ (~(LlmRead(s) /\ s.classifyRoles) => e.roles = DefaultEnv.roles)

ResolverEnvs ==
    [http : HttpProfiles, emb : EmbProfiles, chat : ChatProfiles,
     content : ContentProfiles, roles : RolesProfiles]

InitResolver ==
    \E s \in ResolverSettings, p \in ResolverParagraphs :
        /\ SettingsRelevant(s)
        /\ \E h \in HttpProfiles, em \in EmbProfiles, c \in ChatProfiles,
              ct \in ContentProfiles, ro \in RolesProfiles :
              LET e == [http |-> h, emb |-> em, chat |-> c, content |-> ct, roles |-> ro]
              IN /\ EnvRelevant(s, e)
                 /\ resolution = ResolverStart(s, p, e, NoSubj)
        /\ PipelineInit

RStart ==
    /\ resolution.pc = "start"
    /\ resolution' = StepStart(resolution)
    /\ UNCHANGED pipelineVars

RHttp ==
    /\ resolution.pc = "http"
    /\ resolution' = StepHttp(resolution)
    /\ UNCHANGED pipelineVars

ROpenAi ==
    /\ resolution.pc = "llm"
    /\ resolution' = StepOpenAi(resolution)
    /\ UNCHANGED pipelineVars

RHeuristic ==
    /\ resolution.pc = "heur"
    /\ resolution' = StepHeuristic(resolution)
    /\ UNCHANGED pipelineVars


NextResolver == RStart \/ RHttp \/ ROpenAi \/ RHeuristic

SpecResolver == InitResolver /\ [][NextResolver]_vars

\* ------------------------------------------------------------------------
\* Properties of the resolver (SpecResolver)
\* ------------------------------------------------------------------------
HttpOutcome == tryHttpEndpoint(resolution.settings, resolution.paragraphs,
                               resolution.env, NoSubj)
LlmOutcome == tryOpenAi(resolution.settings, resolution.paragraphs,
                        resolution.env, NoSubj)
HeuristicOutcome == computeHeuristic(resolution.settings, resolution.paragraphs)

\* C4: in 'auto' mode the tiers are tried in the order HTTP adapter, LLM
\* adapter, heuristics, a tier only after every earlier one returned null, and
\* the array returned is the output of the first tier that returned non-null
\* (the LLM adapter's output when the HTTP adapter failed and it succeeded).
C4_AutoFallbackOrder ==
    resolution.settings.backendMode = "auto" =>
        LET t == resolution.tiers
        IN /\ Len(t) <= 3
           /\ (Len(t) >= 1 => t[1].tier = "http")
           /\ (Len(t) >= 2 => t[1].isNull /\ t[2].tier = "llm")
           /\ (Len(t) >= 3 => t[2].isNull /\ t[3].tier = "heur")
           /\ (resolution.pc = "done" =>
                 /\ Len(t) >= 1
                 /\ ~t[Len(t)].isNull
                 /\ resolution.metrics = t[Len(t)].metrics
                 /\ (~HttpOutcome.isNull => resolution.metrics = HttpOutcome.metrics)
                 /\ (HttpOutcome.isNull /\ ~LlmOutcome.isNull
                        => resolution.metrics = LlmOutcome.metrics)
                 /\ (HttpOutcome.isNull /\ LlmOutcome.isNull
                        => resolution.metrics = HeuristicOutcome))

\* C4 witness: 'auto', the HTTP adapter failed, the LLM adapter succeeded and
\* its output, which differs from the heuristic one, was returned.
C4_Witness ==
    /\ resolution.settings.backendMode = "auto"
    /\ resolution.pc = "done"
    /\ resolution.paragraphs # << >>
    /\ Len(resolution.tiers) = 2
    /\ resolution.tiers[1].isNull
    /\ resolution.metrics = LlmOutcome.metrics
    /\ resolution.metrics # HeuristicOutcome

\* C5: whatever the mode and the outcomes of the remote requests, getMetrics
\* completes, does not throw, and returns as many metrics as it was given
\* paragraphs.
C5_GetMetricsTotal ==
    /\ resolution.pc # "thrown"
    /\ resolution.pc \in {"start", "http", "llm", "heur", "done"}
    /\ Len(resolution.tiers) <= 3
    /\ (resolution.pc = "done" =>
            Len(resolution.metrics) = Len(resolution.paragraphs))

\* C5 witness: the HTTP service answered with an array of the wrong length
\* and getMetrics completed with one metric per paragraph.
C5_Witness ==
    /\ resolution.pc = "done"
    /\ resolution.settings.backendMode = "server"
    /\ resolution.settings.httpEndpoint
    /\ resolution.env.http = "long"
    /\ Len(resolution.paragraphs) = 2
    /\ Len(resolution.metrics) = 2

FirstTierNull ==
    /\ resolution.pc = "done"
    /\ \/ resolution.settings.backendMode = "server" /\ HttpOutcome.isNull
       \/ resolution.settings.backendMode = "openai" /\ LlmOutcome.isNull

C1_CacheAligned ==
    ~metricsCache.isNull =>
        Len(metricsCache.metrics) = Len(metricsCache.paragraphs)

\* A partial recompute has written into a cache of two paragraphs
C1_Witness ==
    /\ lastWrite.by = "partial"
    /\ ~metricsCache.isNull
    /\ Len(metricsCache.metrics) = 2
    /\ Len(metricsCache.paragraphs) = 2

\* C2: the cache never holds the path and the metrics of a note other than
\* the active one
C2_NoStaleCache ==
    ~metricsCache.isNull => metricsCache.file = activeFile

\* C3: the step in which a cancelled full analysis resumes from getMetrics
\* leaves metricsCache and metricsVersion as they were and renders nothing
C3_CancelledDiscarded ==
    [][\A a \in analyses :
          (/\ a.pc = "resolve"
           /\ a.cancelled
           /\ \A b \in analyses' : b.id # a.id)
          => /\ metricsCache' = metricsCache
             /\ metricsVersion' = metricsVersion
             /\ renders' = renders]_vars

\* The analysis of the current context has resumed and nothing was
\* published: it had been cancelled
C3_Witness ==
    /\ currentAnalysis # NoContext
    /\ \A a \in analyses : a.id # currentAnalysis
    /\ metricsCache.isNull
    /\ metricsVersion = 0
    /\ renders = 0

\* C7: the timer that expires carries the union of the indices submitted
\* since the previous expiry
C7_UnionScoped ==
    lastFire.fired => lastFire.indices = lastFire.submitted

\* C8 as stated: submissions always lead to one partial recompute, so while
\* indices are waiting exactly one timer is pending, due one quiet window
\* after the last submission
C8_OneCallPerBurst ==
    /\ Cardinality(timers) <= 1
    /\ submitted # {} => timers # {}
    /\ \A t \in timers : t.remaining + sinceSubmit = QuietWindow
    /\ lastFire.fired => lastFire.elapsed = QuietWindow

\* C8 with the exception: at most one timer is pending; it is the one
\* this.analysisTimeout names and is due one quiet window after the last
\* submission; indices are waiting for it unless a full analysis cleared
\* their timer; and it expires exactly one quiet window after the last
\* submission
C8_OneCallUnlessCleared ==
    /\ Cardinality(timers) <= 1
    /\ (submitted \ dropped) # {} <=> timers # {}
    /\ \A t \in timers :
          /\ t.id = analysisTimeout
          /\ t.remaining + sinceSubmit = QuietWindow
    /\ lastFire.fired => lastFire.elapsed = QuietWindow

\* Two submissions less than a quiet window apart were answered by one
\* expiry, which started the only partial recompute
C8_Witness ==
    /\ lastFire.fired
    /\ Cardinality(lastFire.submitted) = 2
    /\ lastFire.elapsed = QuietWindow
    /\ timers = {}
    /\ Cardinality(partials) = 1

\* The user's change meets a cache of the active note
EditOfCached ==
    /\ notes' # notes
    /\ ~metricsCache.isNull
    /\ metricsCache.file = activeFile
    /\ ~metricsCache'.isNull

\* The indices at which the text of the paragraph is no longer the cached one
Differing ==
    {j \in 1..Min2(Len(metricsCache.paragraphs), Len(metricsCache'.paragraphs)) :
        metricsCache'.paragraphs[j] # metricsCache.paragraphs[j]}

\* C9: an edit that changes the text of exactly one of the N cached
\* paragraphs, N unchanged, leaves the other N-1 entries of metrics as they
\* were, at the same indices
C9_OthersCarriedOver ==
    [][(/\ EditOfCached
        /\ Len(metricsCache'.paragraphs) = Len(metricsCache.paragraphs)
        /\ Len(metricsCache.metrics) = Len(metricsCache.paragraphs)
        /\ Cardinality(Differing) = 1)
       => \A j \in 1..Len(metricsCache.metrics) :
             j \notin Differing =>
                 metricsCache'.metrics[j] = metricsCache.metrics[j]]_vars

\* An edit of the first of two paragraphs marked it alone; the second keeps
\* the scores the backend gave it
C9_Witness ==
    /\ lastWrite.by = "update"
    /\ changedIndices = {0}
    /\ Len(metricsCache.metrics) = 2
    /\ metricsCache.metrics[1].snr = 0
    /\ metricsCache.metrics[2].snr # 0

\* C10: every paragraph whose text differs from the cached text at its index
\* is marked dirty and submitted for rescoring
C10_ChangedAreDirty ==
    [][EditOfCached =>
          \A j \in Differing :
              /\ (j - 1) \in changedIndices'
              /\ (j - 1) \in submitted']_vars

\* A score that is a number of [0, 1]
InUnit(x) == x \in 0..Scale

\* C11: every metric held in the cache has snr, complexity and topic in [0, 1]
C11_ScoresInUnitRange ==
    ~metricsCache.isNull =>
        \A k \in 1..Len(metricsCache.metrics) :
            /\ InUnit(metricsCache.metrics[k].snr)
            /\ InUnit(metricsCache.metrics[k].complexity)
            /\ InUnit(metricsCache.metrics[k].topic)

\* C12: an edit, a partial recompute or the decoration pass that follows
\* them leaves the ranges of the cache of a note as the last full analysis
\* set them
C12_RangesKept ==
    [][(/\ ~metricsCache.isNull
        /\ ~metricsCache'.isNull
        /\ metricsCache'.file = metricsCache.file)
       => metricsCache'.ranges = metricsCache.ranges]_vars

\* v is the least (greatest) value of the non-empty set S
IsLeast(v, S) == v \in S /\ \A x \in S : v <= x
IsGreatest(v, S) == v \in S /\ \A x \in S : v >= x

\* The ranges of cache c are the literal minima and maxima of its metrics
LiteralRanges(c) ==
    /\ ~c.ranges.isNull
    /\ IsLeast(c.ranges.snrMin, {c.metrics[k].snr : k \in 1..Len(c.metrics)})
    /\ IsGreatest(c.ranges.snrMax, {c.metrics[k].snr : k \in 1..Len(c.metrics)})
    /\ IsLeast(c.ranges.compMin,
               {c.metrics[k].complexity : k \in 1..Len(c.metrics)})
    /\ IsGreatest(c.ranges.compMax,
                  {c.metrics[k].complexity : k \in 1..Len(c.metrics)})

\* C13: the step in which a full analysis that was not cancelled resumes
\* from getMetrics with at least one metric leaves a cache whose ranges are
\* the minimum and maximum snr and complexity of the metrics it stored
\* (unless the refresh it ends with found another note active and emptied
\* the cache again)
C13_RangesAreMinMax ==
    [][\A a \in analyses :
          (/\ a.pc = "resolve"
           /\ ~a.cancelled
           /\ a.paragraphs # << >>
           /\ \A b \in analyses' : b.id # a.id
           /\ ~metricsCache'.isNull)
          => LiteralRanges(metricsCache')]_vars

\* The first full analysis published two metrics of different snr with
\* their ranges
C13_Witness ==
    /\ lastWrite.by = "forced"
    /\ metricsVersion = 1
    /\ ~metricsCache.isNull
    /\ Len(metricsCache.metrics) = 2
    /\ ~metricsCache.ranges.isNull
    /\ metricsCache.ranges.snrMin < metricsCache.ranges.snrMax

\* C14: from the moment a full analysis of the active note has emptied the
\* cache of another note, the cache does not hold that note's metrics
C14_EmptiedStaysEmptied ==
    ~metricsCache.isNull => metricsCache.file \notin emptied

\* A call of reanalyzeForced or reanalyze reaches its vault read in this step
FullAnalysisStarts ==
    \E a \in analyses' : a.pc = "read" /\ \A b \in analyses : b.id # a.id

Requests(calls, kind) == Cardinality({k \in 1..Len(calls) : calls[k] = kind})

\* C16: one call of getMetrics sends at most one request to the HTTP scoring
\* service, at most one to the embeddings endpoint and at most one scoring
\* request to the chat-completions endpoint
C16_OneRequestPerEndpoint ==
    /\ Requests(resolution.calls, "http") <= 1
    /\ Requests(resolution.calls, "emb") <= 1
    /\ Requests(resolution.calls, "chat") <= 1

\* C17: the step in which a getMetrics call of a cancelled full analysis
\* resolves shows no notice
C17_CancelledSilent ==
    [][\A a \in analyses :
          (/\ a.pc = "resolve"
           /\ a.cancelled
           /\ \A b \in analyses' : b.id # a.id)
          => shown' = << >>]_vars

\* The answers of the HTTP scoring service that are no array of one item per
\* paragraph sent: a non-2xx status, a body that is no array, an array of
\* another length
MismatchedAnswers ==
    {[DefaultEnv EXCEPT !.http = h] :
        h \in {"status500", "notarray", "short", "long"}}

\* The snr and complexity the heuristic scorer gives the paragraphs at indices
HeuristicPartial(paragraphs, indices) ==
    applyHeuristics(UniqIndices(paragraphs, indices),
        computeHeuristicMetrics(
            SubsetParas(paragraphs, UniqIndices(paragraphs, indices)), << >>),
        NoSubj)

\* C18: whatever full analysis or partial recompute is waiting for the HTTP
\* scoring service, a mismatched answer leaves it with the values of the
\* heuristic scorer and none of the answer's
C18_MismatchIsFailure ==
    /\ \A a \in analyses, env \in MismatchedAnswers :
          a.pc = "resolve" =>
              getMetrics(PipelineSettings, a.paragraphs, env, NoSubj).metrics
                  = computeHeuristic(PipelineSettings, a.paragraphs)
    /\ \A p \in partials, env \in MismatchedAnswers :
          (p.pc = "resolve" /\ UniqIndices(p.paragraphs, p.indices) # << >>) =>
              LET r == recomputeMetricsForIndices(PipelineSettings, p.paragraphs,
                                                  p.indices, env, NoSubj)
              IN /\ r.snr = HeuristicPartial(p.paragraphs, p.indices).snr
                 /\ r.complexity =
                        HeuristicPartial(p.paragraphs, p.indices).complexity

\* ---------------------------------------------------------------------------
\* getMetrics in "heuristic" mode, over bounded paragraph lists
\* ---------------------------------------------------------------------------

MaxTextLen == 3

RECURSIVE TextsOfLen(_)
TextsOfLen(n) ==
    IF n = 0 THEN {<< >>}
    ELSE {Append(t, c) : t \in TextsOfLen(n - 1), c \in {"a", "b", ".", SP}}

\* One word of seven letters (LIX above its scale), three sentences of one
\* three-syllable word each (SMOG valid), a text holding the topic four times.
LongTexts ==
    { << "b", "b", "b", "b", "b", "b", "b" >>,
      << "a", "a", "a", ".", SP, "a", "a", "a", ".", SP, "a", "a", "a", "." >>,
      << "a", "a", "a", "a" >> }

HeuristicTexts == UNION {TextsOfLen(n) : n \in 0..MaxTextLen} \cup LongTexts

HeuristicParagraphs ==
    {<< >>} \cup {<< t >> : t \in HeuristicTexts}
            \cup {<< t, u >> : t \in HeuristicTexts, u \in LongTexts}

\* backendMode "heuristic" with every value of the settings the other modes read
HeuristicSettings ==
    {MkSettings("heuristic", ep, key, meth, cl, t) :
        ep \in BOOLEAN, key \in BOOLEAN, meth \in {"embedding", "llm"},
        cl \in BOOLEAN, t \in ResolverTopics}

InitHeuristic ==
    /\ \E s \in HeuristicSettings, p \in HeuristicParagraphs :
          resolution = ResolverStart(s, p, DefaultEnv, NoSubj)
    /\ PipelineInit

NextHeuristic == RStart \/ RHeuristic

SpecHeuristic == InitHeuristic /\ [][NextHeuristic]_vars

\* C19: in "heuristic" mode getMetrics sends no request and returns one entry
\* per input paragraph, each with snr, complexity and topic within [0, 1].
C19_HeuristicTotal ==
    /\ resolution.calls = << >>
    /\ resolution.pc = "done" =>
          /\ Len(resolution.metrics) = Len(resolution.paragraphs)
          /\ \A k \in 1..Len(resolution.metrics) :
                /\ InUnit(resolution.metrics[k].snr)
                /\ InUnit(resolution.metrics[k].complexity)
                /\ InUnit(resolution.metrics[k].topic)

\* A finished resolution of two paragraphs with an endpoint and a key set,
\* whose second paragraph has a LIX above the top of its scale.
C19_Witness ==
    /\ resolution.pc = "done"
    /\ resolution.settings.httpEndpoint /\ resolution.settings.apiKey
    /\ Len(resolution.metrics) = 2
    /\ russianLixIndex(resolution.paragraphs[2]) > 80 * 1000
    /\ resolution.metrics[2].complexity = Scale

\* ---------------------------------------------------------------------------
\* Range normalisation of the decorations.  In this section a metric value is
\* an integer in units of 1/Nano, so that the tolerance 1e-9 of normalize is
\* one unit, and a normalised value is the exact fraction num / den.
\* ---------------------------------------------------------------------------

Nano == 1000 * 1000 * 1000
Epsilon == 1
MaxMetrics == 2

Fraction(n, d) == [num |-> n, den |-> d]

\* normalize with the ranges ignored: the branch of a disabled setting
normalize_NoRanges(value, min, max, normalizeRanges) ==
    Fraction(Max2(0, Min2(Nano, NumOr0(value))), Nano)

\* const normalize = (value, min, max) => ..., closed over
\* plugin.settings.normalizeRanges; a range of numbers is finite
normalize(value, min, max, normalizeRanges) ==
    IF ~normalizeRanges
    THEN Fraction(Max2(0, Min2(Nano, NumOr0(value))), Nano)
    ELSE LET range == max - min
         IN IF range <= Epsilon THEN Fraction(1, 2)
            ELSE Fraction(Max2(0, Min2(range, value - min)), range)

\* snrMin, snrMax, compMin, compMax of computeDecorations
DecorationRanges(cache, normalizeRanges) ==
    IF normalizeRanges /\ ~cache.isNull /\ ~cache.ranges.isNull
    THEN cache.ranges
    ELSE [isNull |-> FALSE, snrMin |-> 0, snrMax |-> Nano, compMin |-> 0,
          compMax |-> Nano]

\* normSnr and normComplexity of every paragraph that has a metric
NormalizedValues(cache, normalizeRanges) ==
    LET r == DecorationRanges(cache, normalizeRanges)
    IN [k \in 1..Len(cache.metrics) |->
           [snr |-> normalize(cache.metrics[k].snr, r.snrMin, r.snrMax,
                              normalizeRanges),
            complexity |-> normalize(cache.metrics[k].complexity, r.compMin,
                                     r.compMax, normalizeRanges)]]

\* Values a backend can answer: 0.2, 0.5, two values within 2e-9 of 0.5, 0.8,
\* and two outside [0, 1]
NormalizeValues ==
    { 0 - 2 * (Nano \div 10), 2 * (Nano \div 10), 5 * (Nano \div 10),
      5 * (Nano \div 10) + 1, 5 * (Nano \div 10) + 2, 8 * (Nano \div 10),
      15 * (Nano \div 10) }

NormalizeMetric == [snr : NormalizeValues, complexity : NormalizeValues]

NormalizeMetrics == UNION {[1..n -> NormalizeMetric] : n \in 1..MaxMetrics}

\* A document of n paragraphs
RECURSIVE DocOfParagraphs(_)
DocOfParagraphs(n) ==
    IF n = 1 THEN << "a" >> ELSE << "a", NL, NL >> \o DocOfParagraphs(n - 1)

\* A full analysis of the open note has published its metrics and ranges and
\* no decoration is built yet
InitNormalize ==
    /\ events = 0
    /\ \E m \in NormalizeMetrics : AnalysedWith(DocOfParagraphs(Len(m)), m, << >>)
    /\ \E b \in BOOLEAN :
          decorations = [normalizeRanges |-> b, built |-> FALSE, values |-> << >>]
    /\ call = NoCall

\* computeDecorations with the cache of the same number of paragraphs
BuildDecorations ==
    /\ ~decorations.built
    /\ ~metricsCache.isNull
    /\ Len(metricsCache.paragraphs) = Len(splitIntoParagraphs(notes[activeFile]))
    /\ decorations' =
          [decorations EXCEPT
              !.built = TRUE,
              !.values = NormalizedValues(metricsCache, decorations.normalizeRanges)]
    /\ UNCHANGED << resolution, activeFile, notes, metricsCache, metricsVersion,
                    currentAnalysis, analyses, decorating, partials, timers,
                    analysisTimeout, busy, subjectEmbeddingCache, nextId, events,
                    renders, changedIndices, lastWrite, submitted, dropped,
                    sinceSubmit, lastFire, emptied, shown, call >>

NextNormalize == BuildDecorations

SpecNormalize == InitNormalize /\ [][NextNormalize]_vars

IsZero(f) == f.num = 0
IsOne(f) == f.num = f.den
IsHalf(f) == f.den - f.num = f.num
InUnitFraction(f) == f.den > 0 /\ 0 <= f.num /\ f.num <= f.den

\* The three parts of the statement for one metric value, its normalised value
\* and the stored minimum and maximum, the extremes being told apart when
\* they differ by more than tol
NormalizedAsStated(v, f, min, max, tol) ==
    /\ (max - min > tol /\ v = min) => IsZero(f)
    /\ (max - min > tol /\ v = max) => IsOne(f)
    /\ (max - min <= tol) => IsHalf(f)
    /\ InUnitFraction(f)

AllNormalizedAsStated(tol) ==
    (decorations.built /\ decorations.normalizeRanges) =>
        \A k \in 1..Len(decorations.values) :
            /\ NormalizedAsStated(metricsCache.metrics[k].snr,
                                  decorations.values[k].snr,
                                  metricsCache.ranges.snrMin,
                                  metricsCache.ranges.snrMax, tol)
            /\ NormalizedAsStated(metricsCache.metrics[k].complexity,
                                  decorations.values[k].complexity,
                                  metricsCache.ranges.compMin,
                                  metricsCache.ranges.compMax, tol)

Calling(fn, args) == [fn |-> fn, args |-> args, returned |-> FALSE, result |-> << >>]

Returned(c, result) == [c EXCEPT !.returned = TRUE, !.result = result]

HelperInit(c) ==
    /\ PluginInit
    /\ resolution = ResolverStart(PipelineSettings, << >>, DefaultEnv, NoSubj)
    /\ call = c

\* ---------------------------------------------------------------------------
\* Colours.  A colour is a record of channels; a hex string is a sequence of
\* characters; a ratio is an integer in units of 1/Scale, Null for NaN or
\* undefined.
\* ---------------------------------------------------------------------------

HexDigits == << "0", "1", "2", "3", "4", "5", "6", "7", "8", "9",
                "a", "b", "c", "d", "e", "f" >>
UpperHexDigits == << "0", "1", "2", "3", "4", "5", "6", "7", "8", "9",
                     "A", "B", "C", "D", "E", "F" >>

Rgb(r, g, b) == [r |-> r, g |-> g, b |-> b]

\* The value of one hex digit, Null for another character
HexVal(ch) ==
    IF \E i \in 1..16 : HexDigits[i] = ch \/ UpperHexDigits[i] = ch
    THEN (CHOOSE i \in 1..16 : HexDigits[i] = ch \/ UpperHexDigits[i] = ch) - 1
    ELSE Null

\* parseInt(h.slice(from, from + 2), 16): the longest prefix of hex digits
ParseHex2(h, from) ==
    LET piece == Slice(h, from, Min2(from + 2, Len(h)))
    IN IF piece = << >> \/ HexVal(piece[1]) = Null THEN Null
       ELSE IF Len(piece) = 1 \/ HexVal(piece[2]) = Null THEN HexVal(piece[1])
       ELSE 16 * HexVal(piece[1]) + HexVal(piece[2])

hexToRgb(hex) ==
    LET h0 == IF hex # << >> /\ hex[1] = "#" THEN Tail(hex) ELSE hex
        h == IF Len(h0) = 3 THEN << h0[1], h0[1], h0[2], h0[2], h0[3], h0[3] >> ELSE h0
    IN Rgb(ParseHex2(h, 0), ParseHex2(h, 2), ParseHex2(h, 4))

\* n.toString(16).padStart(2, '0') of a channel; "NaN" for NaN
RECURSIVE ToHexDigits(_)
ToHexDigits(n) ==
    IF n < 16 THEN << HexDigits[n + 1] >>
    ELSE Append(ToHexDigits(n \div 16), HexDigits[(n % 16) + 1])

toHex(n) ==
    IF n = Null THEN << "N", "a", "N" >>
    ELSE IF n < 16 THEN << "0" >> \o ToHexDigits(n) ELSE ToHexDigits(n)

rgbToHex(c) == << "#" >> \o toHex(c.r) \o toHex(c.g) \o toHex(c.b)

\* Math.round(c1 + (c2 - c1) * t) for t = n / Scale, halves rounded up
Channel(c1, c2, n) ==
    IF c1 = Null \/ c2 = Null THEN Null
    ELSE (2 * (c1 * Scale + (c2 - c1) * n) + Scale) \div (2 * Scale)

\* interpolateColor without the interpolation: the first colour for every t
interpolateColor_Constant(hex1, hex2, t) == rgbToHex(hexToRgb(hex1))

interpolateColor(hex1, hex2, t) ==
    LET c1 == hexToRgb(hex1)
        c2 == hexToRgb(hex2)
    IN rgbToHex(Rgb(Channel(c1.r, c2.r, t), Channel(c1.g, c2.g, t),
                    Channel(c1.b, c2.b, t)))

\* A CSS colour value as the page reports it: a hex string, rgb()/rgba() with
\* comma-separated integers, another syntax (hsl(), a name, ...), or nothing
CssHex(text) == [syntax |-> "hex", text |-> text, r |-> 0, g |-> 0, b |-> 0]
CssRgb(r, g, b) == [syntax |-> "rgb", text |-> << >>, r |-> r, g |-> g, b |-> b]
CssOther == [syntax |-> "other", text |-> << >>, r |-> 0, g |-> 0, b |-> 0]
CssNone == [syntax |-> "none", text |-> << >>, r |-> 0, g |-> 0, b |-> 0]

White == Rgb(255, 255, 255)

cssColorToRgb(color) ==
    IF color.syntax = "none" THEN White
    ELSE IF color.syntax = "hex" /\ Trim(color.text) # << >> /\ Trim(color.text)[1] = "#"
    THEN hexToRgb(Trim(color.text))
    ELSE IF color.syntax = "rgb" THEN Rgb(color.r, color.g, color.b)
    ELSE White

\* Math.max(0, Math.min(1, x || 0))
Clamp01(x) == IF x = Null THEN 0 ELSE Max2(0, Min2(Scale, x))

DefaultSnrMaxColor == << "#", "d", "1", "f", "9", "d", "1" >>
DefaultComplexityMinColor == << "#", "c", "c", "c", "c", "c", "c" >>
DefaultComplexityMaxColor == << "#", "4", "c", "4", "c", "4", "c" >>

\* settings.x || DEFAULT_SETTINGS.x
OrDefault(colour, default) == IF colour = << >> THEN default ELSE colour

\* baseColorHex: --background-primary of the body, else the background of
\* the editor element, else '#ffffff'; also when reading the style throws
BaseColorHex(host) ==
    IF host.throws THEN rgbToHex(White)
    ELSE IF host.var.syntax # "none" THEN rgbToHex(cssColorToRgb(host.var))
    ELSE IF host.editor.syntax # "none" THEN rgbToHex(cssColorToRgb(host.editor))
    ELSE rgbToHex(White)

getBackgroundColorFor(snr, snrMaxColor, host) ==
    interpolateColor(OrDefault(snrMaxColor, DefaultSnrMaxColor), BaseColorHex(host),
                     Clamp01(snr))

getTextColorFor(complexity, complexityMinColor, complexityMaxColor) ==
    interpolateColor(OrDefault(complexityMinColor, DefaultComplexityMinColor),
                     OrDefault(complexityMaxColor, DefaultComplexityMaxColor),
                     Clamp01(complexity))

\* The colours of the settings: what the colour picker stored (text) and the
\* colour that is (rgb); the empty text is a setting absent from the saved data
PickedColours ==
    { [text |-> << "#", "f", "f", "0", "0", "0", "0" >>, rgb |-> Rgb(255, 0, 0)],
      [text |-> << "#", "0", "0", "0", "0", "0", "0" >>, rgb |-> Rgb(0, 0, 0)],
      [text |-> << "#", "f", "f", "f", "f", "f", "f" >>, rgb |-> Rgb(255, 255, 255)],
      [text |-> << "#", "1", "e", "9", "0", "f", "f" >>, rgb |-> Rgb(30, 144, 255)] }

Absent(default) == [text |-> << >>, rgb |-> default]

SnrMaxColours == PickedColours \cup {Absent(Rgb(209, 249, 209))}
ComplexityMinColours == PickedColours \cup {Absent(Rgb(204, 204, 204))}
ComplexityMaxColours == PickedColours \cup {Absent(Rgb(76, 76, 76))}

\* The page: the value of --background-primary, the computed background of
\* the editor element, whether reading the style throws, and the colour the
\* theme paints (actual)
Hosts ==
    { [var |-> CssHex(<< SP, "#", "1", "e", "1", "e", "1", "e" >>), editor |-> CssNone,
       throws |-> FALSE, actual |-> Rgb(30, 30, 30)],
      [var |-> CssHex(<< "#", "F", "F", "F" >>), editor |-> CssNone,
       throws |-> FALSE, actual |-> Rgb(255, 255, 255)],
      [var |-> CssRgb(30, 30, 30), editor |-> CssNone,
       throws |-> FALSE, actual |-> Rgb(30, 30, 30)],
      [var |-> CssOther, editor |-> CssRgb(30, 30, 30),
       throws |-> FALSE, actual |-> Rgb(30, 30, 30)],
      [var |-> CssNone, editor |-> CssRgb(30, 30, 30),
       throws |-> FALSE, actual |-> Rgb(30, 30, 30)],
      [var |-> CssNone, editor |-> CssNone,
       throws |-> TRUE, actual |-> Rgb(255, 255, 255)] }

\* Ratios: NaN or undefined, below 0, 0, three inside, 1, above 1
Ratios ==
    { Null, 0 - Scale \div 2, 0, Scale \div 4, Scale \div 2, 3 * (Scale \div 4),
      Scale, 3 * (Scale \div 2) }

ColourCalls ==
    {Calling("getBackgroundColorFor", [snr |-> t, snrMaxColor |-> c, host |-> h]) :
        t \in Ratios, c \in SnrMaxColours, h \in Hosts}
    \cup
    {Calling("getTextColorFor", [complexity |-> t, minColor |-> c, maxColor |-> d]) :
        t \in Ratios, c \in ComplexityMinColours, d \in ComplexityMaxColours}

InitColour == \E c \in ColourCalls : HelperInit(c)

BackgroundColorReturns ==
    /\ call.fn = "getBackgroundColorFor" /\ ~call.returned
    /\ call' = Returned(call, getBackgroundColorFor(call.args.snr,
                                call.args.snrMaxColor.text, call.args.host))
    /\ UNCHANGED << resolution, activeFile, notes, metricsCache, metricsVersion,
                    currentAnalysis, analyses, decorating, partials, timers,
                    analysisTimeout, busy, subjectEmbeddingCache, nextId, events,
                    renders, changedIndices, lastWrite, submitted, dropped,
                    sinceSubmit, lastFire, emptied, shown, decorations >>

TextColorReturns ==
    /\ call.fn = "getTextColorFor" /\ ~call.returned
    /\ call' = Returned(call, getTextColorFor(call.args.complexity,
                                call.args.minColor.text, call.args.maxColor.text))
    /\ UNCHANGED << resolution, activeFile, notes, metricsCache, metricsVersion,
                    currentAnalysis, analyses, decorating, partials, timers,
                    analysisTimeout, busy, subjectEmbeddingCache, nextId, events,
                    renders, changedIndices, lastWrite, submitted, dropped,
                    sinceSubmit, lastFire, emptied, shown, decorations >>

NextColour == BackgroundColorReturns \/ TextColorReturns

SpecColour == InitColour /\ [][NextColour]_vars

\* A ratio at or below 0 (or not a number), at or above 1
AtLow(t) == t = Null \/ t <= 0
AtHigh(t) == t # Null /\ t >= Scale

\* x lies no further from the end `from` than y does, on the way to `to`
NotPast(x, y, from, to) == IF from <= to THEN x <= y ELSE x >= y

MonotoneBetween(c, d, from, to) ==
    /\ NotPast(c.r, d.r, from.r, to.r)
    /\ NotPast(c.g, d.g, from.g, to.g)
    /\ NotPast(c.b, d.b, from.b, to.b)

\* C21: getBackgroundColorFor gives the configured highlight colour at SNR 0
\* and the background colour of the host at SNR 1, every channel moving
\* monotonically from the one to the other as SNR grows; getTextColorFor gives
\* the 'simple' colour at complexity 0 and the 'complex' colour at 1; a ratio
\* outside [0, 1] gives the colour of the nearest end.
C21_ColourEnds ==
    /\ (call.fn = "getBackgroundColorFor" /\ call.returned) =>
          /\ AtLow(call.args.snr) => hexToRgb(call.result) = call.args.snrMaxColor.rgb
          /\ AtHigh(call.args.snr) => hexToRgb(call.result) = call.args.host.actual
          /\ \A u \in Ratios :
                (u # Null /\ call.args.snr # Null /\ call.args.snr <= u) =>
                    MonotoneBetween(hexToRgb(call.result),
                        hexToRgb(getBackgroundColorFor(u, call.args.snrMaxColor.text,
                                                       call.args.host)),
                        call.args.snrMaxColor.rgb, call.args.host.actual)
    /\ (call.fn = "getTextColorFor" /\ call.returned) =>
          /\ AtLow(call.args.complexity) =>
                hexToRgb(call.result) = call.args.minColor.rgb
          /\ AtHigh(call.args.complexity) =>
                hexToRgb(call.result) = call.args.maxColor.rgb

\* ---------------------------------------------------------------------------
\* splitIntoParagraphs over every text of bounded length
\* ---------------------------------------------------------------------------

MaxSplitLen == 6

RECURSIVE SplitTextsOfLen(_)
SplitTextsOfLen(n) ==
    IF n = 0 THEN {<< >>}
    ELSE {Append(t, c) : t \in SplitTextsOfLen(n - 1), c \in {"a", SP, NL, CR}}

SplitTexts == UNION {SplitTextsOfLen(n) : n \in 0..MaxSplitLen}

InitSplit == \E t \in SplitTexts : HelperInit(Calling("splitIntoParagraphs", [text |-> t]))

SplitReturns ==
    /\ call.fn = "splitIntoParagraphs" /\ ~call.returned
    /\ call' = Returned(call, splitIntoParagraphs(call.args.text))
    /\ UNCHANGED << resolution, activeFile, notes, metricsCache, metricsVersion,
                    currentAnalysis, analyses, decorating, partials, timers,
                    analysisTimeout, busy, subjectEmbeddingCache, nextId, events,
                    renders, changedIndices, lastWrite, submitted, dropped,
                    sinceSubmit, lastFire, emptied, shown, decorations >>

NextSplit == SplitReturns

SpecSplit == InitSplit /\ [][NextSplit]_vars

\* The elements of the set of positions K of t, in increasing order
Pick(t, K) ==
    [i \in 1..Cardinality(K) |->
        t[CHOOSE p \in K : Cardinality({q \in K : q <= p}) = i]]

\* t without every "\r" that a "\n" follows
CrlfNormalized(t) ==
    Pick(t, {k \in 1..Len(t) : ~(t[k] = CR /\ k < Len(t) /\ t[k + 1] = NL)})

\* Position k of n lies in a run of two or more newlines
InBreak(n, k) ==
    /\ n[k] = NL
    /\ \/ k > 1 /\ n[k - 1] = NL
       \/ k < Len(n) /\ n[k + 1] = NL

\* i..j is a piece between breaks that holds a character other than whitespace
IsPiece(n, i, j) ==
    /\ i <= j
    /\ \A k \in i..j : ~InBreak(n, k)
    /\ i = 1 \/ InBreak(n, i - 1)
    /\ j = Len(n) \/ InBreak(n, j + 1)
    /\ \E k \in i..j : n[k] \notin Whitespace

\* The piece i..j without the whitespace at its ends
TrimmedPiece(n, i, j) ==
    LET ink == {k \in i..j : n[k] \notin Whitespace}
        a == CHOOSE k \in ink : \A m \in ink : k <= m
        b == CHOOSE k \in ink : \A m \in ink : k >= m
    IN SubSeq(n, a, b)

PiecesOf(n) ==
    LET starts == {i \in 1..Len(n) : \E j \in i..Len(n) : IsPiece(n, i, j)}
    IN [r \in 1..Cardinality(starts) |->
           LET i == CHOOSE p \in starts : Cardinality({q \in starts : q <= p}) = r
               j == CHOOSE q \in i..Len(n) : IsPiece(n, i, q)
           IN TrimmedPiece(n, i, j)]

\* C22: splitIntoParagraphs returns, in document order, exactly the non-empty
\* trimmed pieces between the runs of two or more newlines of the
\* CRLF-normalized text; no paragraph is empty or starts or ends with
\* whitespace; an empty or whitespace-only text gives the empty sequence.
C22_SplitIsPieces ==
    (call.fn = "splitIntoParagraphs" /\ call.returned) =>
        /\ call.result = PiecesOf(CrlfNormalized(call.args.text))
        /\ \A k \in 1..Len(call.result) :
              /\ call.result[k] # << >>
              /\ call.result[k][1] \notin Whitespace
              /\ call.result[k][Len(call.result[k])] \notin Whitespace
        /\ (\A k \in 1..Len(call.args.text) : call.args.text[k] \in Whitespace)
              => call.result = << >>

\* A text with a CRLF line end and a leading space, split in two
C22_Witness ==
    /\ call.fn = "splitIntoParagraphs" /\ call.returned
    /\ call.args.text = << SP, "a", CR, NL, NL, "a" >>
    /\ call.result = << << "a" >>, << "a" >> >>

\* ---------------------------------------------------------------------------
\* The heuristic scorer, one paragraph at a time, and calculateComplexity
\* ---------------------------------------------------------------------------

MaxScorerLen == 6

RECURSIVE ScorerTextsOfLen(_)
ScorerTextsOfLen(n) ==
    IF n = 0 THEN {<< >>}
    ELSE {Append(t, c) : t \in ScorerTextsOfLen(n - 1), c \in {"a", "b", "B", ".", SP}}

ScorerTexts == UNION {ScorerTextsOfLen(n) : n \in 0..MaxScorerLen} \cup LongTexts

\* lix and smog in 1/1000: undefined, the ends of each scale, inside, beyond
LixValues == {Null, 0, 40 * 1000, 80 * 1000, 101 * 1000}
SmogValues == {Null, 3 * 1000, 8842, 20 * 1000, 25 * 1000}

ScorerCalls ==
    {Calling("computeHeuristicMetrics", [para |-> t]) : t \in ScorerTexts}
    \cup
    {Calling("calculateComplexity", [lix |-> l, smog |-> g, smogValid |-> v]) :
        l \in LixValues, g \in SmogValues, v \in BOOLEAN}

InitScorer == \E c \in ScorerCalls : HelperInit(c)

\* computeHeuristicMetrics([para], ''): the one entry of the result
HeuristicMetricsReturn ==
    /\ call.fn = "computeHeuristicMetrics" /\ ~call.returned
    /\ call' = Returned(call, computeHeuristicMetrics(<< call.args.para >>, << >>)[1])
    /\ UNCHANGED << resolution, activeFile, notes, metricsCache, metricsVersion,
                    currentAnalysis, analyses, decorating, partials, timers,
                    analysisTimeout, busy, subjectEmbeddingCache, nextId, events,
                    renders, changedIndices, lastWrite, submitted, dropped,
                    sinceSubmit, lastFire, emptied, shown, decorations >>

CalculateComplexityReturns ==
    /\ call.fn = "calculateComplexity" /\ ~call.returned
    /\ call' = Returned(call, calculateComplexity(call.args.lix, call.args.smog,
                                                  call.args.smogValid))
    /\ UNCHANGED << resolution, activeFile, notes, metricsCache, metricsVersion,
                    currentAnalysis, analyses, decorating, partials, timers,
                    analysisTimeout, busy, subjectEmbeddingCache, nextId, events,
                    renders, changedIndices, lastWrite, submitted, dropped,
                    sinceSubmit, lastFire, emptied, shown, decorations >>

NextScorer == HeuristicMetricsReturn \/ CalculateComplexityReturns

SpecScorer == InitScorer /\ [][NextScorer]_vars

\* The whitespace-separated tokens of t: the maximal runs of other characters
TokenStarts(t) ==
    {i \in 1..Len(t) : t[i] \notin Whitespace /\ (i = 1 \/ t[i - 1] \in Whitespace)}

TokenAt(t, i) ==
    SubSeq(t, i, CHOOSE j \in i..Len(t) :
                    /\ \A k \in i..j : t[k] \notin Whitespace
                    /\ j = Len(t) \/ t[j + 1] \in Whitespace)

TokensOf(t) ==
    [r \in 1..Cardinality(TokenStarts(t)) |->
        TokenAt(t, CHOOSE p \in TokenStarts(t) :
                      Cardinality({q \in TokenStarts(t) : q <= p}) = r)]

\* The letters and digits of a token, in lower case
LettersOf(w) ==
    LET kept == Pick(w, {k \in 1..Len(w) : w[k] \in LettersDigits})
    IN [k \in 1..Len(kept) |-> LowerOf(kept[k])]

DistinctTokens(t) == {LettersOf(TokenAt(t, i)) : i \in TokenStarts(t)} \ {<< >>}

RECURSIVE JoinTokens(_)
JoinTokens(ts) ==
    IF ts = << >> THEN << >>
    ELSE IF Len(ts) = 1 THEN ts[1]
    ELSE ts[1] \o << SP >> \o JoinTokens(Tail(ts))

\* The paragraph with its tokens in the order pi
Permuted(t, pi) == JoinTokens([i \in 1..Len(TokensOf(t)) |-> TokensOf(t)[pi[i]]])

\* C23: the heuristic SNR is the number of distinct non-empty cleaned
\* lower-case tokens over the number of whitespace-separated tokens, 0 without
\* tokens; every permutation of the tokens, and a second computation, give
\* the same value.
C23_SnrIsDistinctRatio ==
    (call.fn = "computeHeuristicMetrics" /\ call.returned) =>
        LET t == call.args.para
            n == Cardinality(TokenStarts(t))
        IN /\ n = 0 => call.result.snr = 0
           /\ n > 0 => call.result.snr * n = Cardinality(DistinctTokens(t)) * Scale
           /\ \A pi \in Permutations(1..n) :
                 computeHeuristicMetrics(<< Permuted(t, pi) >>, << >>)[1].snr
                    = call.result.snr
           /\ computeHeuristicMetrics(<< t >>, << >>)[1].snr = call.result.snr

\* "B b b." scores 1/3: three tokens, one distinct after cleaning
C23_Witness ==
    /\ call.fn = "computeHeuristicMetrics" /\ call.returned
    /\ call.args.para = << "B", SP, "b", SP, "b", "." >>
    /\ 3 * call.result.snr = Scale

\* A LIX value (in 1/1000, Null when undefined) on its scale 0..80, in 1/Scale
LixAlone(lix) ==
    IF lix = Null THEN 0
    ELSE LET clipped == IF lix < 0 THEN 0 ELSE IF lix > 80 * 1000 THEN 80 * 1000 ELSE lix
         IN ((2 * clipped + 80) \div (2 * 80)) * (Scale \div 1000)

BackendComplexity(para) ==
    LET words == SplitWs(para, << >>)
        longWords == {i \in 1..Len(words) : Len(CleanToken(words[i])) > 6}
    IN IF Len(words) > 0 THEN (Cardinality(longWords) * Scale) \div Len(words) ELSE 0

computeMetrics(paragraphs, topic) ==
    [i \in 1..Len(paragraphs) |->
        [snr |-> HeuristicSnr(paragraphs[i]),
         complexity |-> BackendComplexity(paragraphs[i]),
         topic |-> HeuristicTopic(paragraphs[i], topic)]]

InitBackend ==
    \E p \in HeuristicParagraphs, t \in ResolverTopics :
        HelperInit(Calling("computeMetrics", [paragraphs |-> p, topic |-> t]))

\* POST /analyze answered with computeMetrics(paragraphs, topic)
ComputeMetricsReturns ==
    /\ call.fn = "computeMetrics" /\ ~call.returned
    /\ call' = Returned(call, computeMetrics(call.args.paragraphs, call.args.topic))
    /\ UNCHANGED << resolution, activeFile, notes, metricsCache, metricsVersion,
                    currentAnalysis, analyses, decorating, partials, timers,
                    analysisTimeout, busy, subjectEmbeddingCache, nextId, events,
                    renders, changedIndices, lastWrite, submitted, dropped,
                    sinceSubmit, lastFire, emptied, shown, decorations >>

NextBackend == ComputeMetricsReturns

SpecBackend == InitBackend /\ [][NextBackend]_vars

\* C25: the backend's computeMetrics returns, for every list of paragraphs and
\* every topic, the snr, complexity and topic values that the plugin's
\* computeHeuristicMetrics returns.
C25_BackendIsHeuristic ==
    (call.fn = "computeMetrics" /\ call.returned) =>
        /\ Len(call.result) = Len(call.args.paragraphs)
        /\ \A k \in 1..Len(call.result) :
              LET h == computeHeuristicMetrics(call.args.paragraphs, call.args.topic)[k]
              IN /\ call.result[k].snr = h.snr
                 /\ call.result[k].complexity = h.complexity
                 /\ call.result[k].topic = h.topic

\* ---------------------------------------------------------------------------
\* Cancellation of full analyses
\* ---------------------------------------------------------------------------

\* The full analyses that have created their context and not been cancelled
Uncancelled == {a \in analyses : a.pc = "resolve" /\ ~a.cancelled}

\* C26: when a full analysis creates its context, every context created
\* before whose analysis has not completed is flagged cancelled, so at most
\* one uncancelled full analysis is in flight.
C26_OneUncancelledAnalysis == Cardinality(Uncancelled) <= 1

\* ---------------------------------------------------------------------------
\* The requests a resolution sends
\* ---------------------------------------------------------------------------

\* The fetch calls of recomputeMetricsForIndices, in order: "http" for
\* fetch(httpEndpoint), "emb" for fetchOpenAiEmbeddings, "chat" for each
\* request of callOpenAiChat
PartialRequests(settings, paragraphs, uniq, env, subj) ==
    IF uniq = << >> THEN << >>
    ELSE IF settings.backendMode = "server" THEN << "http" >>
    ELSE IF settings.backendMode = "openai"
            \/ (settings.backendMode = "auto" /\ settings.apiKey)
    THEN IF settings.snrMethod = "embedding"
         THEN IF /\ ~subj.isNull
                 /\ subj.text = SubjectOf(settings, paragraphs)
                 /\ subj.model = settings.embeddingModel
              THEN << "emb" >>
              ELSE IF EmbFetch(env.emb, 1).kind = "throw" THEN << "emb" >>
              ELSE << "emb", "emb" >>
         ELSE IF callOpenAiChat(env.chat).kind = "throw"
              THEN callOpenAiChat(env.chat).calls
              ELSE LET obj == parseLlmScoresAndComplexity(env.content, Len(uniq))
                       allZero == \A k \in 1..Len(uniq) :
                                     ~(/\ obj.scores.isArray
                                       /\ k <= Len(obj.scores.arr)
                                       /\ NumOr0(obj.scores.arr[k]) # 0)
                   IN callOpenAiChat(env.chat).calls
                      \o (IF allZero THEN << "emb" >> ELSE << >>)
    ELSE << >>

RequestSettings ==
    {MkSettings(m, ep, key, meth, cl, << >>) :
        m \in BackendModes, ep \in BOOLEAN, key \in BOOLEAN,
        meth \in {"embedding", "llm"}, cl \in BOOLEAN}

RequestEnvs ==
    [http : {"neterr", "good"}, emb : {"throw", "alt"}, chat : {"ok", "fail"},
     content : {"good", "zeros"}, roles : {"ok"}]

RequestParagraphs == << ParaAB, ParaAA >>

InitRequests ==
    \E fn \in {"getMetrics", "recomputeMetricsForIndices"},
       st \in RequestSettings, e \in RequestEnvs :
        HelperInit(Calling(fn, [settings |-> st, env |-> e]))

\* getMetrics(paragraphs) resolves: the requests it sent
GetMetricsReturns ==
    /\ call.fn = "getMetrics" /\ ~call.returned
    /\ call' = Returned(call, getMetrics(call.args.settings, RequestParagraphs,
                                         call.args.env, NoSubj).calls)
    /\ UNCHANGED << resolution, activeFile, notes, metricsCache, metricsVersion,
                    currentAnalysis, analyses, decorating, partials, timers,
                    analysisTimeout, busy, subjectEmbeddingCache, nextId, events,
                    renders, changedIndices, lastWrite, submitted, dropped,
                    sinceSubmit, lastFire, emptied, shown, decorations >>

\* recomputeMetricsForIndices(paragraphs, [0, 1]) resolves: the requests it sent
RecomputeReturns ==
    /\ call.fn = "recomputeMetricsForIndices" /\ ~call.returned
    /\ call' = Returned(call,
                   PartialRequests(call.args.settings, RequestParagraphs,
                                   UniqIndices(RequestParagraphs, {0, 1}),
                                   call.args.env, NoSubj))
    /\ UNCHANGED << resolution, activeFile, notes, metricsCache, metricsVersion,
                    currentAnalysis, analyses, decorating, partials, timers,
                    analysisTimeout, busy, subjectEmbeddingCache, nextId, events,
                    renders, changedIndices, lastWrite, submitted, dropped,
                    sinceSubmit, lastFire, emptied, shown, decorations >>

NextRequests == GetMetricsReturns \/ RecomputeReturns

SpecRequests == InitRequests /\ [][NextRequests]_vars

\* C27: a resolution, full or partial, sends no request to the embedding or
\* chat provider when the credential is absent and no request to the HTTP
\* scoring service when the endpoint is absent.
C27_NoRequestWithoutConfiguration ==
    (call.fn \in {"getMetrics", "recomputeMetricsForIndices"} /\ call.returned) =>
        /\ ~call.args.settings.apiKey =>
              \A k \in 1..Len(call.result) : call.result[k] = "http"
        /\ ~call.args.settings.httpEndpoint =>
              \A k \in 1..Len(call.result) : call.result[k] # "http"

\* ---------------------------------------------------------------------------
\* Completion of the debounced recompute
\* ---------------------------------------------------------------------------

\* The metric at index i of cache c is the placeholder update() assigns
PlaceholderAt(c, i) ==
    /\ i < Len(c.metrics)
    /\ c.metrics[i + 1].snr = 0
    /\ c.metrics[i + 1].topic = 0

\* C28: when the recompute started by the last expiry of the debounce timer
\* completes and writes the cache, with no timer pending and no other
\* analysis in flight, no paragraph marked dirty since the previous expiry
\* is left out of the recompute with the placeholder snr and topic of 0.
C28_DirtyRescored ==
    [][\A p \in partials :
          (/\ p.pc = "resolve"
           /\ partials' = {}
           /\ timers' = {}
           /\ analyses' = {}
           /\ decorating' = {}
           /\ lastFire.fired
           /\ lastFire.indices = p.indices
           /\ ~metricsCache'.isNull
           /\ metricsCache'.file = p.file
           /\ lastWrite'.by = "partial")
          => \A i \in lastFire.submitted :
                ~(i \notin p.indices /\ PlaceholderAt(metricsCache', i))]_vars

\* The debounce callbacks whose recomputeMetricsForIndices call is in flight
RecomputesInFlight == {p \in partials : p.pc = "resolve"}

\* C29: a partial recompute never starts while another is in flight.
C29_RecomputesSerialized == Cardinality(RecomputesInFlight) <= 1

\* C30: a debounced recompute whose timer had expired before a full analysis
\* started leaves every entry of the cache that full analysis installed as
\* it is.
C30_FullCacheUntouched ==
    [][\A p \in partials :
          (/\ p.pc = "resolve"
           /\ \A q \in partials' : q.id # p.id
           /\ lastWrite.by \in {"forced", "plain"}
           /\ p.id < lastWrite.id)
          => metricsCache'.metrics = metricsCache.metrics]_vars

\* ------------------------------------------------------------------------
\* SpecRevising: the pipeline from the loading of the plugin, the user
\* deleting one character anywhere in the document (joining two paragraphs
\* when the character is a line break)
\* ------------------------------------------------------------------------
Revising(doc) == {c \in Changes(doc, Alphabet) : c.insert = << >>}

NextRevising ==
    \/ \E f \in Files : OpenFile(f)
    \/ AnalyzeCommand
    \/ ChatModelChanged
    \/ activeFile # NoFile /\ \E c \in Revising(notes[activeFile]) : Edit(c)
    \/ \E a \in analyses : FullRead(a)
    \/ \E a \in analyses, env \in PipelineEnvs : FullResolve(a, env)
    \/ \E d \in decorating, env \in PipelineEnvs : DecorationResolve(d, env)
    \/ Tick
    \/ \E t \in timers : TimerFire(t)
    \/ \E p \in partials : PartialRead(p)
    \/ \E p \in partials, env \in PipelineEnvs : PartialResolve(p, env)

SpecRevising == Init /\ [][NextRevising]_vars

\* ------------------------------------------------------------------------
\* The frame of a partial recompute that is applied
\* ------------------------------------------------------------------------
\* The debounce callback p resumes after recomputeMetricsForIndices and
\* finds the cache of its note
AppliesPartial(p) ==
    /\ p \in partials
    /\ p.pc = "resolve"
    /\ p \notin partials'
    /\ ~metricsCache.isNull
    /\ metricsCache.file = p.file

\* C31: when a debounced partial recompute completes, only the metric entries
\* whose index was submitted are modified; the other entries, the paragraphs,
\* the ranges and the file of metricsCache are unchanged, and metricsVersion
\* is incremented exactly once.
C31_PartialFrame ==
    [][\A p \in partials :
          AppliesPartial(p) =>
              /\ ~metricsCache'.isNull
              /\ metricsCache'.file = metricsCache.file
              /\ metricsCache'.paragraphs = metricsCache.paragraphs
              /\ metricsCache'.ranges = metricsCache.ranges
              /\ Len(metricsCache'.metrics) = Len(metricsCache.metrics)
              /\ \A k \in 1..Len(metricsCache.metrics) :
                     (k - 1) \notin p.indices =>
                         metricsCache'.metrics[k] = metricsCache.metrics[k]
              /\ metricsVersion' = metricsVersion + 1]_vars

\* ------------------------------------------------------------------------
\* The text a partial recompute scored and the text the cache holds
\* ------------------------------------------------------------------------
\* The indices whose entry the callback p writes: submitted, with an entry in
\* the cache and with a score in the partial result
Written(p) ==
    {i \in p.indices : i < Len(metricsCache.metrics) /\ i < Len(p.paragraphs)}

\* C32: every score a debounced partial recompute writes to
\* metricsCache.metrics[i] was computed from the text metricsCache.paragraphs[i]
\* holds at the moment of the write.
C32_ScoredTextIsCachedText ==
    [][\A p \in partials :
          AppliesPartial(p) =>
              \A i \in Written(p) :
                  p.paragraphs[i + 1] = metricsCache.paragraphs[i + 1]]_vars

\* ------------------------------------------------------------------------
\* A partial recompute and the cache of another note
\* ------------------------------------------------------------------------
\* The debounce callback p resumes after recomputeMetricsForIndices
CompletesPartial(p) ==
    /\ p \in partials
    /\ p.pc = "resolve"
    /\ p \notin partials'

\* C33: the result of a debounced partial recompute is applied only if, at
\* completion, metricsCache is not null and its file is the note that was
\* active when the timer expired; otherwise the cache is left unchanged.
C33_OnlyOwnCache ==
    [][\A p \in partials :
          CompletesPartial(p) =>
              /\ (lastWrite'.by = "partial" /\ lastWrite'.id = p.id) =>
                     ~metricsCache.isNull /\ metricsCache.file = p.file
              /\ (metricsCache.isNull \/ metricsCache.file # p.file) =>
                     metricsCache' = metricsCache]_vars

\* The note was switched after the timer expired, and the callback found no
\* cache of its note when it resumed
C33_Witness ==
    /\ lastFire.fired
    /\ partials = {}
    /\ metricsCache.isNull
    /\ lastWrite.by = "update"
    /\ activeFile # lastWrite.file

\* ------------------------------------------------------------------------
\* Whose metric a paragraph that was not marked carries
\* ------------------------------------------------------------------------
\* The positions of the new cache whose metric update() took from prev
CarriedOver ==
    {k \in 1..Len(metricsCache'.metrics) :
        (k - 1) \notin changedIndices' /\ k <= Len(metricsCache.metrics)}

\* C34: after an editor mutation, the metric a paragraph that is not dirty
\* carries over is the metric that was cached for a paragraph with the same
\* text.
C34_CarriedFromSameText ==
    [][EditOfCached =>
          \A k \in CarriedOver :
              \E j \in 1..Len(metricsCache.paragraphs) :
                  /\ j <= Len(metricsCache.metrics)
                  /\ metricsCache.paragraphs[j] = metricsCache'.paragraphs[k]
                  /\ metricsCache.metrics[j] = metricsCache'.metrics[k]]_vars

\* ------------------------------------------------------------------------
\* SpecSegment: the paragraphs of one editor document as update() builds
\* them from the lines, as computeDecorations splits them and as its walk
\* over the lines groups them
\* ------------------------------------------------------------------------
\* The loop over the lines of computeDecorations: currentLines of every
\* paragraph, paraIdx being its position
RECURSIVE LineWalkFrom(_, _, _, _)
LineWalkFrom(doc, lines, lineNumber, currentLines) ==
    IF lineNumber > Len(lines)
    THEN IF currentLines # << >> THEN << currentLines >> ELSE << >>
    ELSE IF Trim(Slice(doc, lines[lineNumber].from, lines[lineNumber].to)) = << >>
         THEN (IF currentLines # << >> THEN << currentLines >> ELSE << >>)
              \o LineWalkFrom(doc, lines, lineNumber + 1, << >>)
         ELSE LineWalkFrom(doc, lines, lineNumber + 1,
                           Append(currentLines, lineNumber))

LineWalk(doc) == LineWalkFrom(doc, DocLines(doc, 0, 0), 1, << >>)

\* The text of the lines a paragraph of the walk decorates
WalkText(doc, currentLines) ==
    Trim(Slice(doc, DocLines(doc, 0, 0)[currentLines[1]].from,
               DocLines(doc, 0, 0)[currentLines[Len(currentLines)]].to))

\* newParaTexts of update()
NewParaTexts(doc) ==
    [k \in 1..Len(ParaRanges(doc)) |-> ParaText(doc, ParaRanges(doc)[k])]

\* The documents of the editor: its line breaks are "\n"
EditorDocs == UNION {DocsOfLen(n) : n \in 0..MaxDocLen}

InitSegment == \E d \in EditorDocs : HelperInit(Calling("update", [doc |-> d]))

\* update() has built paraRanges and newParaTexts
UpdateBuildsRanges ==
    /\ call.fn = "update" /\ ~call.returned /\ Len(call.result) = 0
    /\ call' = [call EXCEPT !.result = << NewParaTexts(call.args.doc) >>]
    /\ UNCHANGED << resolution, activeFile, notes, metricsCache, metricsVersion,
                    currentAnalysis, analyses, decorating, partials, timers,
                    analysisTimeout, busy, subjectEmbeddingCache, nextId, events,
                    renders, changedIndices, lastWrite, submitted, dropped,
                    sinceSubmit, lastFire, emptied, shown, decorations >>

\* computeDecorations(), called at the end of update(): splitIntoParagraphs
\* of the document, then the walk over its lines
DecorationsSegment ==
    /\ call.fn = "update" /\ ~call.returned /\ Len(call.result) = 1
    /\ call' = Returned(call,
                   call.result \o
                   << splitIntoParagraphs(call.args.doc),
                      [k \in 1..Len(LineWalk(call.args.doc)) |->
                          WalkText(call.args.doc, LineWalk(call.args.doc)[k])] >>)
    /\ UNCHANGED << resolution, activeFile, notes, metricsCache, metricsVersion,
                    currentAnalysis, analyses, decorating, partials, timers,
                    analysisTimeout, busy, subjectEmbeddingCache, nextId, events,
                    renders, changedIndices, lastWrite, submitted, dropped,
                    sinceSubmit, lastFire, emptied, shown, decorations >>

NextSegment == UpdateBuildsRanges \/ DecorationsSegment

SpecSegment == InitSegment /\ [][NextSegment]_vars

\* C35: for every document text, the line-based paragraph ranges of update()
\* and the line walk of computeDecorations yield the same paragraphs, with the
\* same trimmed texts in the same order, as splitIntoParagraphs.
C35_SegmentationsAgree ==
    (call.fn = "update" /\ call.returned) =>
        /\ call.result[1] = call.result[2]
        /\ call.result[3] = call.result[2]

\* ------------------------------------------------------------------------
\* The adapters a partial recompute and a full resolution try
\* ------------------------------------------------------------------------
\* The adapters the requests sent belong to: the HTTP scoring service, or the
\* embedding and chat provider
AdaptersTried(requests) ==
    {IF requests[k] = "http" THEN "http" ELSE "openai" : k \in 1..Len(requests)}

\* C36: in 'auto' mode, with the same configuration and the same adapter
\* outcomes, a partial recompute tries the backends a full resolution tries:
\* the HTTP adapter first, then the LLM adapter, then the heuristic scorer.
C36_PartialSelectsAsFull ==
    (/\ call.fn = "recomputeMetricsForIndices"
     /\ call.returned
     /\ call.args.settings.backendMode = "auto") =>
        AdaptersTried(call.result) =
            AdaptersTried(getMetrics(call.args.settings, RequestParagraphs,
                                     call.args.env, NoSubj).calls)

\* ------------------------------------------------------------------------
\* metricsVersion as the signal of a cache change
\* ------------------------------------------------------------------------
\* C37: metricsVersion never decreases, and every step that replaces or
\* mutates metricsCache increments it, so that a consumer comparing versions
\* misses no change of the cache.
C37_VersionSignalsChange ==
    [][/\ metricsVersion' >= metricsVersion
       /\ metricsCache' # metricsCache => metricsVersion' > metricsVersion]_vars

\* ------------------------------------------------------------------------
\* The busy indicator
\* ------------------------------------------------------------------------
\* C38: the busy indicator is shown whenever an uncancelled full analysis is
\* in flight, under every interleaving of full analyses, superseding analyses
\* and debounced partial recomputes.
C38_BusyWhileAnalysing ==
    (\E a \in analyses : a.pc = "resolve" /\ ~a.cancelled) => busy

\* ------------------------------------------------------------------------
\* A failed role classification in the LLM adapter (SpecResolver)
\* ------------------------------------------------------------------------
\* Role classification is enabled and one of its per-paragraph calls fails
RoleCallFails ==
    /\ resolution.settings.classifyRoles
    /\ resolution.settings.apiKey
    /\ resolution.paragraphs # << >>
    /\ resolution.env.roles \in {"failfirst", "faillast"}

\* What the LLM adapter returns on the same answers with role classification
\* disabled
WithoutRoles ==
    tryOpenAi([resolution.settings EXCEPT !.classifyRoles = FALSE],
              resolution.paragraphs, resolution.env, NoSubj)

\* C39: when role classification is enabled and a classification call fails,
\* the LLM adapter still returns a full-length metrics array whose snr and
\* complexity are unaffected and whose role is the empty string for every
\* paragraph; the failure never turns the adapter result into null.
C39_RoleFailureTolerated ==
    \A k \in 1..Len(resolution.tiers) :
        (resolution.tiers[k].tier = "llm" /\ RoleCallFails) =>
            /\ resolution.tiers[k].isNull = WithoutRoles.isNull
            /\ ~resolution.tiers[k].isNull =>
                  /\ Len(resolution.tiers[k].metrics) = Len(resolution.paragraphs)
                  /\ \A i \in 1..Len(resolution.paragraphs) :
                        /\ resolution.tiers[k].metrics[i].role = ""
                        /\ resolution.tiers[k].metrics[i].snr =
                               WithoutRoles.metrics[i].snr
                        /\ resolution.tiers[k].metrics[i].complexity =
                               WithoutRoles.metrics[i].complexity

\* The LLM adapter scored two paragraphs and the first classification call
\* failed
C39_Witness ==
    /\ RoleCallFails
    /\ resolution.env.roles = "failfirst"
    /\ \E k \in 1..Len(resolution.tiers) :
          /\ resolution.tiers[k].tier = "llm"
          /\ ~resolution.tiers[k].isNull
          /\ Len(resolution.tiers[k].metrics) = 2
          /\ resolution.tiers[k].metrics[1].snr > 0
          /\ resolution.tiers[k].metrics[1].role = ""

\* ------------------------------------------------------------------------
\* SpecEmbedding: the pipeline with the embedding provider as its backend
\* ('openai' mode, an API key, snrMethod 'embedding', no topic, so that the
\* subject is the first paragraph)
\* ------------------------------------------------------------------------
EmbeddingSettings == MkSettings("openai", FALSE, TRUE, "embedding", FALSE, << >>)

\* The answers of the embedding provider to one request
EmbeddingEnvs == {[DefaultEnv EXCEPT !.emb = e] : e \in {"alt", "throw"}}

\* getMetrics resolves in a full analysis
EmbeddingFullResolve(a, env) ==
    /\ a.pc = "resolve"
    /\ Commit(AfterMetrics(World, a,
                  getMetrics(EmbeddingSettings, a.paragraphs, env,
                             subjectEmbeddingCache)))
    /\ UNCHANGED resolution

\* getMetrics resolves in computeDecorations
EmbeddingDecorationResolve(d, env) ==
    /\ Commit(AfterDecorationMetrics(World, d,
                  getMetrics(EmbeddingSettings, d.paragraphs, env,
                             subjectEmbeddingCache)))
    /\ UNCHANGED resolution

\* recomputeMetricsForIndices resolves in the debounce callback
EmbeddingPartialResolve(p, env) ==
    /\ p.pc = "resolve"
    /\ Commit(AfterPartial(World, p,
                  recomputeMetricsForIndices(EmbeddingSettings, p.paragraphs,
                                             p.indices, env,
                                             subjectEmbeddingCache)))
    /\ UNCHANGED resolution

NextEmbedding ==
    \/ \E f \in Files : OpenFile(f)
    \/ AnalyzeCommand
    \/ ChatModelChanged
    \/ activeFile # NoFile /\ \E c \in Typing(notes[activeFile]) : Edit(c)
    \/ \E a \in analyses : FullRead(a)
    \/ \E a \in analyses, env \in EmbeddingEnvs : EmbeddingFullResolve(a, env)
    \/ \E d \in decorating, env \in EmbeddingEnvs : EmbeddingDecorationResolve(d, env)
    \/ Tick
    \/ \E t \in timers : TimerFire(t)
    \/ \E p \in partials : PartialRead(p)
    \/ \E p \in partials, env \in EmbeddingEnvs : EmbeddingPartialResolve(p, env)

SpecEmbedding == Init /\ [][NextEmbedding]_vars

\* The slot holds the embedding of the subject and model of the paragraphs
SlotIsOf(slot, paragraphs) ==
    /\ ~slot.isNull
    /\ slot.text = SubjectOf(EmbeddingSettings, paragraphs)
    /\ slot.model = EmbeddingSettings.embeddingModel

\* C40: a partial recompute reuses the subject-embedding slot only when its
\* text and model are the current subject and embedding model, and otherwise
\* requests a fresh embedding that replaces the slot; the slot is emptied on
\* document switch and on resetAnalysisCache.
C40_SubjectSlot ==
    [][/\ activeFile' # activeFile => subjectEmbeddingCache'.isNull
       /\ events' = events + 2 => subjectEmbeddingCache'.isNull
       /\ \A p \in partials :
             (CompletesPartial(p) /\ UniqIndices(p.paragraphs, p.indices) # << >>) =>
                 IF SlotIsOf(subjectEmbeddingCache, p.paragraphs)
                 THEN subjectEmbeddingCache' = subjectEmbeddingCache
                 ELSE \/ subjectEmbeddingCache' = subjectEmbeddingCache
                      \/ SlotIsOf(subjectEmbeddingCache', p.paragraphs)]_vars

====
